---- MODULE Spec2Model ----
(***************************************************************************)
(* Video frame extractor: the frame sampling pipeline of src/App.tsx.      *)
(*                                                                         *)
(* Spec: the capture scheduler and the frame store.  Its times (start, end, *)
(* interval, video.currentTime, frame timestamps) are whole seconds: on    *)
(* whole numbers of this size the double arithmetic of the source is exact.*)
(* SpecFps: the frame rate estimator; media times are whole microseconds.  *)
(* SpecFloat: the sample points of a capture run whose range is given in   *)
(* tenths of a second, in IEEE-754 double arithmetic.                      *)
(* SpecFpsFair: SpecFps with the fairness of timers and promise reactions.  *)
(* SpecOverlap: estimator calls that overlap.  SpecModes: the estimator    *)
(* next to the capture scheduler.  SpecExport, SpecExportFair: the         *)
(* exporter of src/utils.ts.                                               *)
(***************************************************************************)
EXTENDS Integers, Sequences, FiniteSets, TLC

\* ------------------------------------------------------------------ bounds
MaxDuration == 2      \* longest video, in seconds
MaxInterval == 2      \* largest sampling interval offered, in seconds
MaxIds      == 3      \* frames created in one session (crypto.randomUUID calls)
NumVideos   == 3      \* distinct video files the user can load
MaxCalls    == 1      \* detectVideoFPS calls whose callbacks are alive at once
MaxExportFrames == 100  \* largest Frame Store exported

Videos == 1..NumVideos

\* Videos 2 and up differ only in their frame timing, which a capture run
\* never reads: the capture specification loads videos 1 and 2.
CaptureVideos == {1, 2}

\* ------------------------------------------------------------- variables
VARIABLES
    videoSrc,                \* App state: 0 = null, else the loaded video
    duration,                \* App state: duration reported by loadedmetadata
    frames,                  \* App state: the Frame Store (sequence of CapturedFrame)
    isAutoCaptureModalOpen,  \* App state
    isAutoCapturing,         \* App state: the "running" flag
    isAnalyzing,             \* App state: fps detection in progress
    detectedFps,             \* App state: cached estimate, 0 = null
    autoCaptureProgress,     \* App state: <<numerator, denominator>> of the percentage
    autoCaptureCount,        \* App state
    playbackSpeed,           \* App state, in percent (1x = 100)
    stop,                    \* autoCaptureRef.current.stop
    video,                   \* the <video> element: currentTime, paused, muted, seeking, playbackRate
    pc,                      \* position of startAutoCapture: "idle", "seeking", "yield"
    start, end, interval,    \* parameters of the run in progress
    newFrames,               \* local of startAutoCapture
    currentTimeLoop,         \* local of startAutoCapture
    lastDataUrl,             \* local of startAutoCapture
    nextId,                  \* ids handed out so far + 1 (crypto.randomUUID is fresh)
    hasRVFC,                 \* 'requestVideoFrameCallback' in video (fixed by the browser)
    est,                     \* the closures of the detectVideoFPS calls still alive
    fpsReturned,             \* history: value the last detectVideoFPS call returned, -1 = none
    fpsSource,               \* history: video that call was started on, 0 = none
    seeks,                   \* history: times passed to seekTo by the current/last run
    rasters,                 \* history: rasters drawn by the current/last run
    stoppedInFlight,         \* history: stop was set while the current seek was awaited
    lastExit,                \* history: how the last run left: "none", "normal", "cancelled", "error"
    runResult,               \* history: promise returned by startAutoCapture: "none", "pending", "fulfilled", "rejected"
    settings,                \* App state: ExportSettings
    isProcessing,            \* App state: an export is in progress
    canvasLimit,             \* canvases that get a 2d context before the browser runs out (fixed by the browser)
    zipRun,                  \* the downloadZip call in progress: its arguments, locals and promises
    archive,                 \* history: <<entries>> of the archive the current/last export delivered, <<>> = none
    alerted,                 \* history: the current/last export showed the error alert
    dialog                   \* AutoCaptureModal state: startTime, endTime, interval

appVars   == <<videoSrc, duration, frames, isAutoCaptureModalOpen, isAutoCapturing,
               isAnalyzing, detectedFps, autoCaptureProgress, autoCaptureCount,
               playbackSpeed>>
runVars   == <<pc, start, end, interval, newFrames, currentTimeLoop, lastDataUrl>>
histVars  == <<seeks, rasters, stoppedInFlight, lastExit, runResult>>
estVars   == <<hasRVFC, est, fpsReturned, fpsSource>>
exportVars == <<settings, isProcessing, canvasLimit, zipRun, archive, alerted>>
vars      == <<appVars, stop, video, runVars, nextId, histVars, estVars, exportVars, dialog>>

\* ------------------------------------------------------------- helpers
Min(a, b) == IF a <= b THEN a ELSE b
Max(a, b) == IF a >= b THEN a ELSE b

RECURSIVE Reverse(_)
\* Array.prototype.reverse
Reverse(s) == IF s = <<>> THEN <<>> ELSE Append(Reverse(Tail(s)), Head(s))

RECURSIVE FilterFromId(_, _)
\* Mutant of FilterOutId: the entry and everything behind it dropped.
FilterFromId(s, id) ==
    IF s = <<>> THEN <<>>
    ELSE IF Head(s).id = id THEN <<>>
         ELSE <<Head(s)>> \o FilterFromId(Tail(s), id)

\* Array.prototype.filter(f => f.id !== id)
RECURSIVE FilterOutId(_, _)
FilterOutId(s, id) ==
    IF s = <<>> THEN <<>>
    ELSE IF Head(s).id = id THEN FilterOutId(Tail(s), id)
         ELSE <<Head(s)>> \o FilterOutId(Tail(s), id)

\* ------------------------------------------------------------- the decoder
\* Length of each loadable video, in seconds.
VideoDuration(v) == IF v = 1 THEN MaxDuration - 1 ELSE MaxDuration

\* metadata.mediaTime, in microseconds, of the n-th frame delivered after the
\* seek to 0 (n = 0, 1, ...).  Video 1 runs at 30 fps; video 2 at 24 fps with
\* one gap of 2.5 s after its second frame; every other video is a slide show
\* with a picture every 2.5 s whose third delivery repeats the second.
MediaTimeOf(v, n) ==
    IF v = 1 THEN 33333 * n
    ELSE IF v = 2 THEN (IF n <= 1 THEN 41667 * n ELSE 2500000 + 41667 * (n - 1))
    ELSE 2500000 * (IF n >= 2 THEN n - 1 ELSE n)

\* The picture the decoder shows at time t.  Video 1 is a still picture; the
\* others show pictures 1, 3, 2 in turn, one second each.
Raster(v, t) == IF v = 1 THEN 1 ELSE <<1, 3, 2>>[(t % 3) + 1]

\* video.videoWidth and video.videoHeight once the metadata has loaded: video 1
\* is a 720p film, video 2 a 100 x 50 clip, every other video a single pixel.
VideoWidth(v)  == IF v = 1 THEN 1280 ELSE IF v = 2 THEN 100 ELSE 1
VideoHeight(v) == IF v = 1 THEN 720 ELSE IF v = 2 THEN 50 ELSE 1

\* A canvas without pixels, and its toDataURL ("data:,").
NoPixels     == 0
EmptyDataUrl == <<0, 0>>

\* canvas.toDataURL('image/jpeg', q): lossy below quality 1, so rasters 1 and 2
\* (nearly equal pictures) encode to the same bytes at q < 100.
ToDataURL(raster, q) ==
    IF raster = NoPixels THEN EmptyDataUrl
    ELSE IF q = 100 THEN <<q, raster>> ELSE <<q, (raster + 1) \div 2>>

CompareQuality == 90
ManualQuality  == 100

\* const speeds = [0.25, 0.5, 1, 1.5, 2], in percent
Speeds == <<25, 50, 100, 150, 200>>
NormalSpeed == 100

\* video.currentTime = t on a video of length dur: the position is clamped to
\* the media and the getter returns it at once.  The 'seeked' event that
\* follows is modelled only where a listener waits for it (seekTo): a seek
\* started while another is in flight replaces it, and one event is fired.
SetCurrentTime(vid, t, dur) ==
    [vid EXCEPT !.currentTime = Max(0, Min(t, dur))]

\* ------------------------------------------------------------- progress
\* totalDuration > 0 ? ((currentTimeLoop - start) / totalDuration) * 100 : 100
ProgressOf(t, s, e) == IF e - s > 0 THEN <<(t - s) * 100, e - s>> ELSE <<100, 1>>

\* Mutant of Min99: the progress reported without the clamp.
Min99Unclamped(p) == p

\* Math.min(99, progress)
Min99(p) == IF p[1] >= 99 * p[2] THEN <<99, 1>> ELSE p

\* interval > 0 ? Math.floor((endTime - startTime) / interval) + 1 : 0
EstimatedScans(s, e, i) == IF i > 0 THEN ((e - s) \div i) + 1 ELSE 0

\* ------------------------------------------------------------- estimator closures
\* Locals of one detectVideoFPS call; play is the state of the promise of
\* video.play(): "none", "pending", "aborted" (rejection queued by a pause);
\* rvfc: a frame callback is registered; timer: the 1.5 s timeout is armed.
FallbackFps     == 30        \* return 30 / resolve(30)
MaxSampleFrames == 20        \* maxFrames

\* Calls whose callbacks are alive at once where calls overlap (SpecOverlap).
OverlapCalls == MaxCalls + 1

Blank ==
    [source |-> 0, wasPlaying |-> FALSE, originalTime |-> 0, originalMuted |-> FALSE,
     frameCount |-> 0, lastMediaTime |-> 0, diffs |-> <<>>,
     play |-> "none", rvfc |-> FALSE, timer |-> FALSE, resolved |-> FALSE]

\* A timeout that never finishes the call.
TimedOutNever(frameCount) == FALSE

\* if (frameCount < maxFrames) of the timeout callback
TimedOut(frameCount) == frameCount < MaxSampleFrames

\* A closure nothing can call any more, or whose only caller left is the
\* timeout that finds frameCount >= maxFrames and does nothing.
Dead(c) == c.play = "none" /\ ~c.rvfc /\ (c.timer => ~TimedOut(c.frameCount))

\* Dead closures are garbage: forget their locals.
Collect(e) == [i \in DOMAIN e |-> IF Dead(e[i]) THEN Blank ELSE e[i]]

\* A closure whose promise has settled: resolve() does nothing from now on and
\* no frame callback is registered, so the samples are never read again.
Settled(c) == [c EXCEPT !.resolved = TRUE, !.diffs = <<>>, !.lastMediaTime = 0]

\* video.pause() / a new load rejects the pending play() promises (AbortError).
AbortPlays(e) ==
    [i \in DOMAIN e |-> IF e[i].play = "pending" THEN [e[i] EXCEPT !.play = "aborted"]
                         ELSE e[i]]

\* ------------------------------------------------------------- export settings
\* useState<ExportSettings>: format is kept split at its '/'.
DefaultSettings ==
    [format |-> <<"image", "jpeg">>, scale |-> 100, prefix |-> "image", sortOrder |-> "asc"]

\* No downloadZip call in progress.
NoZipRun == [pc |-> "idle", settings |-> DefaultSettings, sortedFrames |-> <<>>,
             pending |-> {}, unsettled |-> {}, blobs |-> {}, files |-> {}]

\* Canvases the browser can back with a 2d context during one export: none,
\* one, or as many as asked for.
CanvasLimits == {0, 1, MaxExportFrames + 1}

\* ------------------------------------------------------------- Init
\* The state after the first render, but for the video and the Frame Store.
\* ------------------------------------------------------------- capture dialog state
\* The numbers of the capture dialog are JavaScript doubles over their whole
\* exponent range.  [neg, m, e, inv] is the double nearest to m * 2^e / inv,
\* negated when neg; m is odd or 0, inv is odd and prime to m.
Zero == [neg |-> FALSE, m |-> 0, e |-> 0, inv |-> 1]

\* useState(0.0333): 333 / 10000
InitialInterval == [neg |-> FALSE, m |-> 333, e |-> -4, inv |-> 625]

\* The state of AutoCaptureModal as its useState calls create it.  Its fps and
\* mode states are shown and select the input on screen; onStart does not read them.
ClosedDialog == [startTime |-> Zero, endTime |-> Zero, interval |-> InitialInterval]

InitRest ==
    /\ isAutoCaptureModalOpen = FALSE
    /\ isAutoCapturing = FALSE
    /\ isAnalyzing = FALSE
    /\ detectedFps = 0
    /\ autoCaptureProgress = <<0, 1>>
    /\ autoCaptureCount = 0
    /\ playbackSpeed = NormalSpeed
    /\ stop = FALSE
    /\ video = [currentTime |-> 0, paused |-> TRUE, muted |-> FALSE, seeking |-> FALSE,
                playbackRate |-> NormalSpeed]
    /\ pc = "idle"
    /\ start = 0 /\ end = 0 /\ interval = 1
    /\ newFrames = <<>>
    /\ currentTimeLoop = 0
    /\ lastDataUrl = <<>>
    /\ hasRVFC \in BOOLEAN
    /\ est \in {[i \in 1..n |-> Blank] : n \in 1..OverlapCalls}
    /\ fpsReturned = -1
    /\ fpsSource = 0
    /\ seeks = <<>>
    /\ rasters = <<>>
    /\ stoppedInFlight = FALSE
    /\ lastExit = "none"
    /\ runResult = "none"
    /\ settings = DefaultSettings
    /\ isProcessing = FALSE
    /\ canvasLimit \in CanvasLimits
    /\ zipRun = NoZipRun
    /\ archive = <<>>
    /\ alerted = FALSE
    /\ dialog = ClosedDialog

Init ==
    /\ InitRest
    /\ videoSrc = 0
    /\ duration = 0
    /\ frames = <<>>
    /\ nextId = 1

\* ------------------------------------------------------------- Frame Store
\* captureFrame: setFrames(prev => [newFrame, ...prev])
InsertOne(f, prev) == <<f>> \o prev

\* Mutants of MergeBatch: the batch spread without reverse(); the batch dropped.
MergeBatchInOrder(batch, prev) == batch \o prev
MergeBatchDropped(batch, prev) == prev

\* startAutoCapture: setFrames(prev => [...newFrames.reverse(), ...prev])
MergeBatch(batch, prev) == Reverse(batch) \o prev

\* The canvas after drawImage(video, 0, 0, canvas.width, canvas.height): it has
\* video.videoWidth x video.videoHeight pixels, none until the metadata of the
\* video has loaded.
Canvas == IF duration = 0 THEN NoPixels ELSE Raster(videoSrc, video.currentTime)

\* Mutant of FreshId: every call returns the same identifier.
FreshIdConstant(n) == Min(n, 1)

\* crypto.randomUUID() at its n-th call: an identifier never returned before.
FreshId(n) == n

\* The CapturedFrame literal of captureFrame and startAutoCapture; video is
\* history: the video the frame was drawn from.
NewFrame(q) ==
    [id |-> FreshId(nextId),
     video |-> videoSrc,
     timestamp |-> video.currentTime,
     originalDataUrl |-> ToDataURL(Canvas, q),
     width |-> IF duration = 0 THEN 0 ELSE VideoWidth(videoSrc),
     height |-> IF duration = 0 THEN 0 ELSE VideoHeight(videoSrc)]

\* Manual single capture (button disabled while capturing or analyzing).
CaptureFrame ==
    /\ videoSrc # 0
    /\ ~isAutoCapturing /\ ~isAnalyzing
    /\ nextId <= MaxIds
    /\ frames' = InsertOne(NewFrame(ManualQuality), frames)
    /\ nextId' = nextId + 1
    /\ UNCHANGED <<playbackSpeed, videoSrc, duration, isAutoCaptureModalOpen, isAutoCapturing, isAnalyzing,
                   detectedFps, autoCaptureProgress, autoCaptureCount, stop, video,
                   runVars, histVars, estVars>>
    /\ UNCHANGED <<exportVars, dialog>>

\* onRemove: setFrames(prev => prev.filter(f => f.id !== id))
Remove(id) ==
    /\ frames' = FilterOutId(frames, id)
    /\ UNCHANGED <<playbackSpeed, videoSrc, duration, isAutoCaptureModalOpen, isAutoCapturing, isAnalyzing,
                   detectedFps, autoCaptureProgress, autoCaptureCount, stop, video,
                   runVars, nextId, histVars, estVars>>
    /\ UNCHANGED <<exportVars, dialog>>

\* onClearAll: setFrames([])
ClearAll ==
    /\ frames # <<>>
    /\ frames' = <<>>
    /\ UNCHANGED <<playbackSpeed, videoSrc, duration, isAutoCaptureModalOpen, isAutoCapturing, isAnalyzing,
                   detectedFps, autoCaptureProgress, autoCaptureCount, stop, video,
                   runVars, nextId, histVars, estVars>>
    /\ UNCHANGED <<exportVars, dialog>>

\* ------------------------------------------------------------- video source
\* handleFileUpload (the Upload button is disabled only while analyzing).  The
\* <video> element loads the new source: position 0, paused, no seek pending,
\* playbackRate back to the default; the playbackSpeed state is not reset.
HandleFileUpload(v) ==
    /\ ~isAnalyzing
    /\ videoSrc' = v
    /\ frames' = <<>>
    /\ duration' = 0
    /\ autoCaptureCount' = 0
    /\ detectedFps' = 0
    /\ video' = [video EXCEPT !.currentTime = 0, !.paused = TRUE, !.seeking = FALSE,
                              !.playbackRate = NormalSpeed]
    /\ est' = AbortPlays(est)
    /\ UNCHANGED <<playbackSpeed, isAutoCaptureModalOpen, isAutoCapturing, isAnalyzing,
                   autoCaptureProgress, stop, runVars, nextId, histVars, hasRVFC, fpsReturned, fpsSource>>
    /\ settings' = [settings EXCEPT !.prefix = DefaultSettings.prefix]
    /\ UNCHANGED <<isProcessing, canvasLimit, zipRun, archive, alerted, dialog>>

\* handleLoadedMetadata
HandleLoadedMetadata ==
    /\ videoSrc # 0
    /\ duration # VideoDuration(videoSrc)
    /\ duration' = VideoDuration(videoSrc)
    /\ UNCHANGED <<playbackSpeed, videoSrc, frames, isAutoCaptureModalOpen, isAutoCapturing, isAnalyzing,
                   detectedFps, autoCaptureProgress, autoCaptureCount, stop, video,
                   runVars, nextId, histVars, estVars>>
    /\ UNCHANGED <<exportVars, dialog>>

\* handleSeekChange (the slider is disabled while capturing or analyzing)
HandleSeekChange(t) ==
    /\ videoSrc # 0
    /\ ~isAutoCapturing /\ ~isAnalyzing
    /\ video' = SetCurrentTime(video, t, VideoDuration(videoSrc))
    /\ UNCHANGED <<appVars, stop, runVars, nextId, histVars, estVars>>
    /\ UNCHANGED <<exportVars, dialog>>

\* togglePlay (disabled while capturing or analyzing)
TogglePlay ==
    /\ videoSrc # 0
    /\ ~isAutoCapturing /\ ~isAnalyzing
    /\ video' = [video EXCEPT !.paused = ~video.paused]
    /\ UNCHANGED <<appVars, stop, runVars, nextId, histVars, estVars>>
    /\ UNCHANGED <<exportVars, dialog>>

\* changeSpeed (disabled while capturing or analyzing): the next entry of
\* speeds, cyclically; indexOf is 0-based, sequences are 1-based.
ChangeSpeed ==
    /\ videoSrc # 0
    /\ ~isAutoCapturing /\ ~isAnalyzing
    /\ LET currentIndex == (CHOOSE k \in 1..Len(Speeds) : Speeds[k] = playbackSpeed) - 1
           nextSpeed == Speeds[((currentIndex + 1) % Len(Speeds)) + 1]
       IN /\ playbackSpeed' = nextSpeed
          /\ video' = [video EXCEPT !.playbackRate = nextSpeed]
    /\ UNCHANGED <<videoSrc, duration, frames, isAutoCaptureModalOpen, isAutoCapturing,
                   isAnalyzing, detectedFps, autoCaptureProgress, autoCaptureCount,
                   stop, runVars, nextId, histVars, estVars>>
    /\ UNCHANGED <<exportVars, dialog>>

\* ------------------------------------------------------------- Capture Scheduler
\* finally { setIsAutoCapturing(false); setIsAutoCaptureModalOpen(false);
\*           video.currentTime = start; }
Finally(vid, s) ==
    /\ isAutoCapturing' = FALSE
    /\ isAutoCaptureModalOpen' = FALSE
    /\ video' = SetCurrentTime(vid, s, VideoDuration(videoSrc))

\* What the promise of the async function settles to after catch (e) { console.error }.
CatchResult == "fulfilled"

\* The function has returned: its parameters (but start, kept for reference)
\* and locals are gone.
Returned(reason, result) ==
    /\ pc' = "idle"
    /\ end' = 0 /\ interval' = 1
    /\ newFrames' = <<>>
    /\ currentTimeLoop' = 0
    /\ lastDataUrl' = <<>>
    /\ seeks' = <<>>
    /\ rasters' = <<>>
    /\ stoppedInFlight' = FALSE
    /\ lastExit' = reason
    /\ runResult' = result

\* The statements after the while loop, reached by the loop condition or by break.
AfterLoop(vid, s, batch, reason) ==
    /\ frames' = MergeBatch(batch, frames)
    /\ autoCaptureProgress' = <<100, 1>>
    /\ Finally(vid, s)
    /\ Returned(reason, "fulfilled")

\* An exception thrown inside the try block: catch, then finally.
Thrown(vid, s) ==
    /\ Finally(vid, s)
    /\ Returned("error", CatchResult)
    /\ UNCHANGED <<frames, autoCaptureProgress>>

\* seekTo(time): video.currentTime = time, resolved by the next 'seeked' event
SeekTo(vid, time) ==
    [SetCurrentTime(vid, time, VideoDuration(videoSrc)) EXCEPT !.seeking = TRUE]

\* Mutant of LoopContinues: the loop head without the check of stop.
LoopContinuesIgnoringStop(t, e, stopped) == t <= e

\* while (currentTimeLoop <= end) { if (autoCaptureRef.current.stop) break; ...
LoopContinues(t, e, stopped) == t <= e /\ ~stopped

\* Mutant of IsNewSignature: every capture accepted.
IsNewSignatureAlways(dataUrl, last) == TRUE

\* if (dataUrl !== lastDataUrl)
IsNewSignature(dataUrl, last) == dataUrl # last

\* A dialog that offers Start whenever it is open.
StartShownAlways(isOpen, processing) == isOpen

\* The dialog renders its form, and with it the Start button, when it is open
\* and not processing: if (!isOpen) return null; {isProcessing ? ... : ...}
StartShown(isOpen, processing) == isOpen /\ ~processing

\* startAutoCapture, up to its first await.  The Start button is rendered while
\* the dialog is open and not processing, and enabled when estimatedScans > 0,
\* so the first pass through the loop head always reaches seekTo(start).
StartAutoCapture(s, e, i) ==
    /\ videoSrc # 0
    /\ e <= duration
    /\ StartShown(isAutoCaptureModalOpen, isAutoCapturing)
    /\ EstimatedScans(s, e, i) > 0
    /\ nextId + EstimatedScans(s, e, i) - 1 <= MaxIds
    /\ start' = s /\ end' = e /\ interval' = i
    /\ isAutoCapturing' = TRUE
    /\ autoCaptureProgress' = <<0, 1>>
    /\ autoCaptureCount' = 0
    /\ stop' = FALSE
    /\ newFrames' = <<>>
    /\ currentTimeLoop' = s
    /\ lastDataUrl' = <<>>
    /\ rasters' = <<>>
    /\ video' = SeekTo([video EXCEPT !.paused = TRUE], s)
    /\ seeks' = <<s>>
    /\ pc' = "seeking"
    /\ stoppedInFlight' = FALSE
    /\ lastExit' = "none"
    /\ runResult' = "pending"
    /\ est' = AbortPlays(est)
    /\ UNCHANGED <<playbackSpeed, videoSrc, duration, frames, isAnalyzing, detectedFps, nextId,
                   isAutoCaptureModalOpen, hasRVFC, fpsReturned, fpsSource>>
    /\ UNCHANGED <<exportVars, dialog>>

\* The 'seeked' event resolves seekTo; the iteration runs on to its
\* requestAnimationFrame await.  outcome: "ok" (a raster was drawn), "noctx"
\* (getContext returned null), "throw" (drawImage / toDataURL threw).
OnSeeked(outcome) ==
    /\ pc = "seeking"
    /\ video.seeking
    /\ LET vid == [video EXCEPT !.seeking = FALSE]
           raster == Canvas
           dataUrl == ToDataURL(raster, CompareQuality)
           accept == outcome = "ok" /\ IsNewSignature(dataUrl, lastDataUrl)
       IN
       IF outcome = "throw"
       THEN /\ Thrown(vid, start)
            /\ UNCHANGED <<autoCaptureCount, nextId>>
       ELSE /\ newFrames' = (IF accept THEN Append(newFrames, NewFrame(CompareQuality))
                             ELSE newFrames)
            /\ lastDataUrl' = (IF accept THEN dataUrl ELSE lastDataUrl)
            /\ autoCaptureCount' = (IF accept THEN Len(newFrames') ELSE autoCaptureCount)
            /\ nextId' = (IF accept THEN nextId + 1 ELSE nextId)
            /\ rasters' = (IF outcome = "ok" THEN Append(rasters, raster) ELSE rasters)
            /\ autoCaptureProgress' = Min99(ProgressOf(currentTimeLoop, start, end))
            /\ currentTimeLoop' = currentTimeLoop + interval
            /\ pc' = "yield"
            /\ video' = vid
            /\ UNCHANGED <<frames, isAutoCapturing, isAutoCaptureModalOpen, lastExit,
                           runResult, end, interval, seeks, stoppedInFlight>>
    /\ UNCHANGED <<playbackSpeed, videoSrc, duration, isAnalyzing, detectedFps, stop, start, estVars>>
    /\ UNCHANGED <<exportVars, dialog>>

\* The requestAnimationFrame callback resumes the loop at its top:
\* while (currentTimeLoop <= end) { if (stop) break; await seekTo(currentTimeLoop); ...
OnAnimationFrame ==
    /\ pc = "yield"
    /\ IF LoopContinues(currentTimeLoop, end, stop)
       THEN /\ video' = SeekTo(video, currentTimeLoop)
            /\ seeks' = Append(seeks, currentTimeLoop)
            /\ pc' = "seeking"
            /\ stoppedInFlight' = FALSE
            /\ UNCHANGED <<frames, isAutoCapturing, isAutoCaptureModalOpen,
                           autoCaptureProgress, end, interval, newFrames, currentTimeLoop,
                           lastDataUrl, rasters, lastExit, runResult>>
       ELSE AfterLoop(video, start, newFrames,
                      IF currentTimeLoop <= end THEN "cancelled" ELSE "normal")
    /\ UNCHANGED <<playbackSpeed, videoSrc, duration, isAnalyzing, detectedFps, autoCaptureCount, stop,
                   start, nextId, estVars>>
    /\ UNCHANGED <<exportVars, dialog>>

\* stopAutoCapture: autoCaptureRef.current.stop = true
StopAutoCapture ==
    /\ isAutoCapturing /\ ~stop
    /\ stop' = TRUE
    /\ stoppedInFlight' = (pc = "seeking")
    /\ UNCHANGED <<appVars, video, runVars, nextId, seeks, rasters, lastExit, runResult,
                   estVars>>
    /\ UNCHANGED <<exportVars, dialog>>

\* onClose of the dialog (its X and Cancel buttons exist only while not processing)
CloseModal ==
    /\ isAutoCaptureModalOpen /\ ~isAutoCapturing
    /\ isAutoCaptureModalOpen' = FALSE
    /\ UNCHANGED <<playbackSpeed, videoSrc, duration, frames, isAutoCapturing, isAnalyzing, detectedFps,
                   autoCaptureProgress, autoCaptureCount, stop, video, runVars, nextId,
                   histVars, estVars>>
    /\ UNCHANGED <<exportVars, dialog>>

\* ------------------------------------------------------------- Frame Rate Estimator
MinDelta        == 1000      \* 0.001 s, in microseconds
MicrosPerSecond == 1000000   \* metadata.mediaTime is in seconds
TimeoutMicros   == 1500000   \* setTimeout(..., 1500)

\* The decoder presents the frame of media time m no earlier than m / playbackRate
\* after playback starts: it can reach a frame callback before the timeout of
\* the call only if that is within 1.5 s.
DeliveredBeforeTimeout(m) == m <= (TimeoutMicros \div 100) * video.playbackRate

\* 1 / medianDelta cut to a whole number.
TruncInverse(m) == MicrosPerSecond \div m

\* Math.round(1 / medianDelta), medianDelta in microseconds (round half up)
RoundInverse(m) == (2 * MicrosPerSecond + m) \div (2 * m)

\* deltas.sort((a, b) => a - b)
SortDeltas(deltas) == SortSeq(deltas, LAMBDA a, b : a < b)

\* The value finish(deltas) resolves with, deltas already sorted.
FpsOf(sorted) ==
    IF Len(sorted) = 0 THEN FallbackFps
    ELSE LET medianDelta == sorted[(Len(sorted) \div 2) + 1]
         IN IF medianDelta > 0 THEN RoundInverse(medianDelta) ELSE FallbackFps

\* resolve(fps) of call c, and the continuation of handleOpenBatchModal that
\* awaits it: setDetectedFps(fps); setIsAutoCaptureModalOpen(true).  A promise
\* settles once: later calls of resolve do nothing.
Resolve(c, fps) ==
    IF est[c].resolved
    THEN UNCHANGED <<detectedFps, isAutoCaptureModalOpen, fpsReturned, fpsSource>>
    ELSE /\ detectedFps' = fps
         /\ isAutoCaptureModalOpen' = TRUE
         /\ fpsReturned' = fps
         /\ fpsSource' = est[c].source

\* finish(deltas) of call c; e is est as the caller has already changed it.
Finish(c, e) ==
    LET sorted  == SortDeltas(e[c].diffs)
        paused  == [video EXCEPT !.paused = TRUE]
        seeked  == SetCurrentTime(paused, e[c].originalTime, VideoDuration(videoSrc))
        unmuted == [seeked EXCEPT !.muted = e[c].originalMuted]
    IN /\ video' = (IF e[c].wasPlaying THEN [unmuted EXCEPT !.paused = FALSE] ELSE unmuted)
       /\ isAnalyzing' = FALSE
       /\ Resolve(c, FpsOf(sorted))
       /\ est' = Collect(AbortPlays([e EXCEPT ![c] = Settled(e[c])]))

FreeSlots == {c \in DOMAIN est : Dead(est[c])}

\* handleOpenBatchModal with a cached estimate: only opens the dialog.
OpenModalCached ==
    /\ videoSrc # 0
    /\ ~isAnalyzing
    /\ detectedFps # 0
    /\ isAutoCaptureModalOpen' = TRUE
    /\ UNCHANGED <<playbackSpeed, videoSrc, duration, frames, isAutoCapturing, isAnalyzing, detectedFps,
                   autoCaptureProgress, autoCaptureCount, stop, video, runVars, nextId,
                   histVars, estVars>>
    /\ UNCHANGED <<exportVars, dialog>>

\* handleOpenBatchModal without a cached estimate, in a browser without
\* requestVideoFrameCallback: detectVideoFPS returns 30 at once.
DetectUnsupported ==
    /\ videoSrc # 0
    /\ ~isAnalyzing
    /\ detectedFps = 0
    /\ ~hasRVFC
    /\ detectedFps' = FallbackFps
    /\ fpsReturned' = FallbackFps
    /\ fpsSource' = videoSrc
    /\ isAutoCaptureModalOpen' = TRUE
    /\ UNCHANGED <<playbackSpeed, videoSrc, duration, frames, isAutoCapturing, isAnalyzing,
                   autoCaptureProgress, autoCaptureCount, stop, video, runVars, nextId,
                   histVars, hasRVFC, est>>
    /\ UNCHANGED <<exportVars, dialog>>

\* handleOpenBatchModal without a cached estimate: detectVideoFPS up to the end
\* of its synchronous part.  allowed = FALSE: video.play() is rejected
\* (autoplay blocked, or a source that cannot be played); the video stays
\* paused and the rejection waits for its catch handler.
DetectVideoFPS(allowed) ==
    /\ videoSrc # 0
    /\ ~isAnalyzing
    /\ detectedFps = 0
    /\ hasRVFC
    /\ FreeSlots # {}
    /\ allowed \/ video.paused
    /\ LET c == CHOOSE x \in FreeSlots : \A y \in FreeSlots : x <= y
           closure == [Blank EXCEPT !.source = videoSrc,
                                    !.wasPlaying = ~video.paused,
                                    !.originalTime = video.currentTime,
                                    !.originalMuted = video.muted,
                                    !.timer = TRUE]
           muted == [video EXCEPT !.muted = TRUE]
           seeked == SetCurrentTime(muted, 0, VideoDuration(videoSrc))
       IN /\ isAnalyzing' = TRUE
          /\ video' = (IF allowed THEN [seeked EXCEPT !.paused = FALSE] ELSE seeked)
          /\ est' = [est EXCEPT ![c] = [closure EXCEPT
                                          !.play = IF allowed THEN "pending" ELSE "aborted"]]
    /\ UNCHANGED <<playbackSpeed, videoSrc, duration, frames, isAutoCapturing, autoCaptureProgress,
                   autoCaptureCount, stop, runVars, nextId, histVars, hasRVFC,
                   detectedFps, isAutoCaptureModalOpen, fpsReturned, fpsSource>>
    /\ UNCHANGED <<exportVars, dialog>>

\* video.play().then(() => { handle = video.requestVideoFrameCallback(callback) })
PlayResolved(c) ==
    /\ c \in DOMAIN est
    /\ est[c].play = "pending"
    /\ est' = [est EXCEPT ![c].play = "none", ![c].rvfc = TRUE]
    /\ UNCHANGED <<appVars, stop, video, runVars, nextId, histVars, hasRVFC, fpsReturned, fpsSource>>
    /\ UNCHANGED <<exportVars, dialog>>

\* .catch(e => { setIsAnalyzing(false); resolve(30) }) after a pause aborted play()
PlayRejected(c) ==
    /\ c \in DOMAIN est
    /\ est[c].play = "aborted"
    /\ isAnalyzing' = FALSE
    /\ Resolve(c, FallbackFps)
    /\ est' = Collect([est EXCEPT ![c] = Settled([est[c] EXCEPT !.play = "none"])])
    /\ UNCHANGED <<playbackSpeed, videoSrc, duration, frames, isAutoCapturing, autoCaptureProgress,
                   autoCaptureCount, stop, video, runVars, nextId, histVars, hasRVFC>>
    /\ UNCHANGED <<exportVars, dialog>>

\* callback(now, metadata) of call c
OnVideoFrame(c) ==
    /\ c \in DOMAIN est
    /\ est[c].rvfc
    /\ ~video.paused
    /\ DeliveredBeforeTimeout(MediaTimeOf(videoSrc, est[c].frameCount))
    /\ LET cl == est[c]
           mediaTime == MediaTimeOf(videoSrc, cl.frameCount)
           diff == mediaTime - cl.lastMediaTime
           diffs == IF cl.frameCount > 0 /\ diff > MinDelta THEN Append(cl.diffs, diff)
                    ELSE cl.diffs
           frameCount == cl.frameCount + 1
           e == [est EXCEPT ![c].diffs = diffs, ![c].lastMediaTime = mediaTime,
                            ![c].frameCount = frameCount]
       IN IF frameCount < MaxSampleFrames
          THEN /\ est' = e
               /\ UNCHANGED <<video, isAnalyzing, detectedFps, isAutoCaptureModalOpen,
                              fpsReturned, fpsSource>>
          ELSE Finish(c, [e EXCEPT ![c].rvfc = FALSE])
    /\ UNCHANGED <<playbackSpeed, videoSrc, duration, frames, isAutoCapturing, autoCaptureProgress,
                   autoCaptureCount, stop, runVars, nextId, histVars, hasRVFC>>
    /\ UNCHANGED <<exportVars, dialog>>

\* setTimeout(() => { if (frameCount < maxFrames) { cancel...; finish(diffs) } }, 1500)
OnTimeout(c) ==
    /\ c \in DOMAIN est
    /\ est[c].timer
    /\ IF TimedOut(est[c].frameCount)
       THEN Finish(c, [est EXCEPT ![c].timer = FALSE, ![c].rvfc = FALSE])
       ELSE /\ est' = Collect([est EXCEPT ![c].timer = FALSE])
            /\ UNCHANGED <<video, isAnalyzing, detectedFps, isAutoCaptureModalOpen,
                           fpsReturned, fpsSource>>
    /\ UNCHANGED <<playbackSpeed, videoSrc, duration, frames, isAutoCapturing, autoCaptureProgress,
                   autoCaptureCount, stop, runVars, nextId, histVars, hasRVFC>>
    /\ UNCHANGED <<exportVars, dialog>>

\* ------------------------------------------------------------- double arithmetic
\* JavaScript numbers are IEEE-754 doubles: 53 significant bits, every result
\* rounded to the nearest double, ties to the even significand.  A double that
\* is 0 or lies in [1/16, 16) is a whole multiple of 2^-GridBits; it is written
\* <<hi, lo>>, standing for (hi * Limb + lo) * 2^-GridBits with 0 <= lo < Limb.
MantissaBits == 53
GridBits     == MantissaBits + 3
Limb         == 2^29

RECURSIVE BitLen(_)
\* Number of bits of the natural n.
BitLen(n) == IF n = 0 THEN 0 ELSE 1 + BitLen(n \div 2)

LimbBits == BitLen(Limb) - 1

BigZero == <<0, 0>>
BigAdd(a, b) == <<a[1] + b[1] + ((a[2] + b[2]) \div Limb), (a[2] + b[2]) % Limb>>
\* a - b, for a >= b
BigSub(a, b) ==
    IF a[2] >= b[2] THEN <<a[1] - b[1], a[2] - b[2]>>
    ELSE <<a[1] - b[1] - 1, a[2] + Limb - b[2]>>
BigLeq(a, b) == a[1] < b[1] \/ (a[1] = b[1] /\ a[2] <= b[2])
BigLen(a) == IF a[1] > 0 THEN LimbBits + BitLen(a[1]) ELSE BitLen(a[2])
\* floor(a / 2^s)
BigShiftRight(a, s) ==
    IF s >= LimbBits THEN <<0, a[1] \div (2^(s - LimbBits))>>
    ELSE <<a[1] \div (2^s), (a[1] % (2^s)) * (2^(LimbBits - s)) + (a[2] \div (2^s))>>

\* The nearest double to n + t grid units, where the tail t < 1 is given by its
\* place: 0 (t = 0), 1 (t < 1/2), 2 (t = 1/2), 3 (t > 1/2).
RoundToDouble(n, tail) ==
    LET d    == Max(0, BigLen(n) - MantissaBits)      \* bits that do not fit
        unit == 2^d
        rem  == n[2] % unit
        kept == <<n[1], n[2] - rem>>
        odd  == (n[2] \div unit) % 2 = 1
        \* the place of the dropped part, rem + t, with respect to unit / 2
        place == IF d = 0 THEN tail
                 ELSE IF 2 * rem < unit THEN 1
                 ELSE IF 2 * rem > unit THEN 3
                 ELSE IF tail = 0 THEN 2 ELSE 3
    IN IF place = 3 \/ (place = 2 /\ odd) THEN BigAdd(kept, <<0, unit>>) ELSE kept

\* a + b and a - b (for a >= b) of doubles
DAdd(a, b) == RoundToDouble(BigAdd(a, b), 0)
DSub(a, b) == RoundToDouble(BigSub(a, b), 0)
\* a <= b
DLeq(a, b) == BigLeq(a, b)

RECURSIVE DivMod(_, _, _)
\* <<floor(a / b) + n, a mod b>> for b > 0
DivMod(a, b, n) == IF BigLeq(b, a) THEN DivMod(BigSub(a, b), b, n + 1) ELSE <<n, a>>

\* Math.floor(a / b) for doubles a >= 0, b > 0.  The quotient is rounded to a
\* double before floor sees it: with n the floor of the exact quotient, the
\* rounded quotient is n + 1 when the exact one is within half a unit in the
\* last place of it (the tie goes to n + 1, whose significand is even), and
\* lies in [n, n + 1) otherwise.  Below n + 1 the unit is 2^(BitLen(n) - 53).
FloorOfQuotient(a, b) ==
    LET qr        == DivMod(a, b, 0)
        n         == qr[1]
        shortfall == BigSub(b, qr[2])          \* ((n + 1) - a / b) * b
        halfUlp   == BigShiftRight(b, MantissaBits + 1 - BitLen(n))
    IN IF BigLeq(shortfall, halfUlp) THEN n + 1 ELSE n

\* step={0.1}: the values the dialog's inputs step through are tenths
TenthsPerSecond == 10

\* Number(e.target.value) of the decimal string for k tenths: the nearest double
\* to k / TenthsPerSecond.  The quotient k * 2^GridBits / TenthsPerSecond is
\* taken by long division, the high limb first and the low limb in two halves.
ParseTenths(k) ==
    LET hiBits == GridBits - LimbBits
        loBits == LimbBits \div 2
        n1 == (k % TenthsPerSecond) * (2^hiBits)
        n2 == (n1 % TenthsPerSecond) * (2^(LimbBits - loBits))
        n3 == (n2 % TenthsPerSecond) * (2^loBits)
        hi == (k \div TenthsPerSecond) * (2^hiBits) + (n1 \div TenthsPerSecond)
        lo == (n2 \div TenthsPerSecond) * (2^loBits) + (n3 \div TenthsPerSecond)
        r  == n3 % TenthsPerSecond
        tail == IF r = 0 THEN 0
                ELSE IF 2 * r < TenthsPerSecond THEN 1
                ELSE IF 2 * r = TenthsPerSecond THEN 2 ELSE 3
    IN RoundToDouble(<<hi, lo>>, tail)

\* estimatedScans of the dialog, for startTime <= endTime
FloatEstimatedScans(s, e, i) ==
    IF i # BigZero THEN FloorOfQuotient(DSub(e, s), i) + 1 ELSE 0

\* ------------------------------------------------------------- specifications
\* ------------------------------------------------------------- Exporter
RECURSIVE Digits(_)
\* String(n): the decimal digits of n >= 0, most significant first.
Digits(n) == IF n < 10 THEN <<n>> ELSE Append(Digits(n \div 10), n % 10)

\* str.padStart(targetLength, fill)
PadStart(str, targetLength, fill) ==
    IF Len(str) >= targetLength THEN str
    ELSE [k \in 1..(targetLength - Len(str)) |-> fill] \o str

\* Mutant of PadLength: no minimum width.
PadLengthUnpadded(index) == Len(Digits(index + 1))

\* padLength = Math.max(2, String(index + 1).length)
PadLength(index) == Max(2, Len(Digits(index + 1)))

\* generateFilename(timestamp, settings, index): `${prefix}_${numStr}.${ext}`,
\* kept as its three parts.
GenerateFilename(timestamp, s, index) ==
    [prefix |-> s.prefix,
     numStr |-> PadStart(Digits(index + 1), PadLength(index), 0),
     ext    |-> s.format[2]]

\* Mutant of Compare: the order setting ignored.
CompareAscending(a, b, order) == a.timestamp - b.timestamp

\* The comparator of downloadZip.
Compare(a, b, order) ==
    IF order = "asc" THEN a.timestamp - b.timestamp ELSE b.timestamp - a.timestamp

\* Index of the element of fs that a stable sort puts first: the earliest one
\* that no other element sorts before.
FirstOf(fs, order) ==
    CHOOSE m \in 1..Len(fs) :
        \A k \in 1..Len(fs) :
            \/ Compare(fs[m], fs[k], order) < 0
            \/ Compare(fs[m], fs[k], order) = 0 /\ m <= k

RECURSIVE SortFrames(_, _)
\* [...frames].sort(comparator): Array.prototype.sort is stable.
SortFrames(fs, order) ==
    IF fs = <<>> THEN <<>>
    ELSE LET m == FirstOf(fs, order)
         IN <<fs[m]>> \o SortFrames(SubSeq(fs, 1, m - 1) \o SubSeq(fs, m + 1, Len(fs)), order)

\* step="0.01": the scale slider moves in hundredths; settings.scale holds
\* them as a percentage.
ScaleSteps == 100

\* Significands are written least significant digit first, in base Digit.
DigitBits == 14
Digit     == 2^DigitBits

RECURSIVE ShiftsToReach(_, _, _)
\* The least j' >= j with k * 2^j' >= n, for k > 0
ShiftsToReach(k, n, j) == IF k * (2^j) >= n THEN j ELSE ShiftsToReach(k, n, j + 1)

RECURSIVE TimesSmall(_, _, _)
\* The digits of ds * w + c for 0 <= w, c < Digit, one digit more than ds
TimesSmall(ds, w, c) ==
    IF ds = <<>> THEN <<c>>
    ELSE LET p == ds[1] * w + c
         IN <<p % Digit>> \o TimesSmall(Tail(ds), w, p \div Digit)

RECURSIVE PlusSmall(_, _)
\* The digits of ds + c, as many as ds has
PlusSmall(ds, c) ==
    IF ds = <<>> THEN <<>>
    ELSE <<(ds[1] + c) % Digit>> \o PlusSmall(Tail(ds), (ds[1] + c) \div Digit)

\* parseFloat(e.target.value) of the slider at k hundredths, 0 < k <= ScaleSteps:
\* the nearest double to k / ScaleSteps, as [m, q] standing for m * 2^-q with
\* a significand m of four digits.  The quotient (k * 2^q) / ScaleSteps is
\* taken by long division, the top digit first; a tie goes to the even one.
ParseScale(k) ==
    LET j  == ShiftsToReach(k, ScaleSteps, 0)
        t3 == k * (2^j) * (2^(MantissaBits - 1 - 3 * DigitBits))
        t2 == (t3 % ScaleSteps) * Digit
        t1 == (t2 % ScaleSteps) * Digit
        t0 == (t1 % ScaleSteps) * Digit
        r  == t0 % ScaleSteps
        ds == <<t0 \div ScaleSteps, t1 \div ScaleSteps, t2 \div ScaleSteps, t3 \div ScaleSteps>>
        up == 2 * r > ScaleSteps \/ (2 * r = ScaleSteps /\ ds[1] % 2 = 1)
    IN [m |-> IF up THEN PlusSmall(ds, 1) ELSE ds, q |-> MantissaBits - 1 + j]

\* Math.floor(n * scale) for a whole n < Digit and the double scale = [m, q].
\* The product is rounded to a double before floor sees it: with f the floor
\* of the exact product, the rounded product is f + 1 when the exact one is
\* within half a unit in the last place of it (the tie goes to f + 1, whose
\* significand is even), and lies in [f, f + 1) otherwise.  Below f + 1 the
\* unit is 2^(BitLen(f) - 53).
FloorOfProduct(n, scale) ==
    LET p       == TimesSmall(scale.m, n, 0)
        topBits == scale.q - 3 * DigitBits
        top     == p[5] * Digit + p[4]
        f       == top \div (2^topBits)
        h       == scale.q + BitLen(f) - MantissaBits - 1
        \* (f + 1) - n * scale <= 2^h * 2^-q
        within  == /\ h >= 0
                   /\ top % (2^topBits) = 2^topBits - 1
                   /\ p[3] = Digit - 1
                   /\ p[2] * Digit + p[1] >= Digit * Digit - 2^h
    IN IF within THEN f + 1 ELSE f

\* Math.max(1, Math.floor(size * settings.scale)) of processFrame
TargetSize(size, percent) == Max(1, FloorOfProduct(size, ParseScale(percent)))

\* The Image of processFrame fires load: the data URL holds a picture.
Decodes(frame) == frame.originalDataUrl # EmptyDataUrl

\* Canvases created so far by the onload handlers of the export in progress.
CanvasesCreated ==
    Len(zipRun.sortedFrames) - Cardinality(zipRun.pending) - Cardinality(zipRun.unsettled)

\* SettingsPanel handleChange(key, value): onChange({ ...settings, [key]: value })
ChangeSettings(key, value) ==
    /\ settings[key] # value
    /\ settings' = [settings EXCEPT ![key] = value]
    /\ UNCHANGED <<appVars, stop, video, runVars, nextId, histVars, estVars, dialog,
                   isProcessing, canvasLimit, zipRun, archive, alerted>>

\* handleDownloadAll up to the await of Promise.all in downloadZip: the frames
\* are sorted and every processFrame call has created its Image.
HandleDownloadAll ==
    /\ Len(frames) > 0
    /\ ~isProcessing /\ ~isAnalyzing
    /\ isProcessing' = TRUE
    /\ zipRun' = [pc |-> "transforming", settings |-> settings,
                  sortedFrames |-> SortFrames(frames, settings.sortOrder),
                  pending |-> 0..(Len(frames) - 1), unsettled |-> {}, blobs |-> {},
                  files |-> {}]
    /\ archive' = <<>>
    /\ alerted' = FALSE
    /\ UNCHANGED <<appVars, stop, video, runVars, nextId, histVars, estVars, dialog,
                   settings, canvasLimit>>

\* img.onload of the frame at `index` of the sorted frames (the canvas takes
\* the target size), its toBlob callback and the continuation of the async
\* arrow function: if (blob) folder.file(fileName, blob).  In the entry, blob
\* is history: the frame that was drawn.  zipRun.pending holds the indices
\* whose Image has fired nothing yet, zipRun.blobs those whose processFrame
\* resolved a blob.
OnImageLoad(index) ==
    /\ zipRun.pc = "transforming"
    /\ index \in zipRun.pending
    /\ LET frame == zipRun.sortedFrames[index + 1]
           hasBlob == CanvasesCreated < canvasLimit
           entry == [name |-> GenerateFilename(frame.timestamp, zipRun.settings, index),
                     blob |-> frame.id,
                     width |-> TargetSize(frame.width, zipRun.settings.scale),
                     height |-> TargetSize(frame.height, zipRun.settings.scale)]
       IN /\ Decodes(frame)
          /\ zipRun' = [zipRun EXCEPT !.pending = @ \ {index},
                                      !.blobs = IF hasBlob THEN @ \cup {index} ELSE @,
                                      !.files = IF hasBlob THEN @ \cup {entry} ELSE @]
    /\ UNCHANGED <<appVars, stop, video, runVars, nextId, histVars, estVars, dialog,
                   settings, isProcessing, canvasLimit, archive, alerted>>

\* The Image of the frame at `index` fires error: processFrame sets no
\* onerror, so its promise stays pending.
OnImageError(index) ==
    /\ zipRun.pc = "transforming"
    /\ index \in zipRun.pending
    /\ ~Decodes(zipRun.sortedFrames[index + 1])
    /\ zipRun' = [zipRun EXCEPT !.pending = @ \ {index}, !.unsettled = @ \cup {index}]
    /\ UNCHANGED <<appVars, stop, video, runVars, nextId, histVars, estVars, dialog,
                   settings, isProcessing, canvasLimit, archive, alerted>>

\* Mutant of AllResolved: the first promise to resolve is enough.
AnyResolved(run) ==
    Cardinality(run.pending) + Cardinality(run.unsettled) < Len(run.sortedFrames)

\* await Promise.all(promises) returns: every processFrame promise has resolved.
AllResolved(run) == run.pending = {} /\ run.unsettled = {}

\* Promise.all has resolved: zip.generateAsync, then the download link is
\* clicked (ok), or generateAsync rejects and handleDownloadAll alerts; finally
\* setIsProcessing(false).
GenerateAsync(ok) ==
    /\ zipRun.pc = "transforming"
    /\ AllResolved(zipRun)
    /\ archive' = (IF ok THEN <<zipRun.files>> ELSE archive)
    /\ alerted' = ~ok
    /\ isProcessing' = FALSE
    /\ zipRun' = NoZipRun
    /\ UNCHANGED <<appVars, stop, video, runVars, nextId, histVars, estVars, dialog,
                   settings, canvasLimit>>

\* The images of an export that fire in the order of their frames: the lowest
\* index pending.
InOrder == {k \in zipRun.pending : \A j \in zipRun.pending : k <= j}

\* A browser that never runs out of canvases.
PlentyOfCanvases == canvasLimit = MaxExportFrames + 1

InitNoRVFC == Init /\ ~hasRVFC /\ Len(est) = MaxCalls /\ PlentyOfCanvases
InitRVFC   == Init /\ hasRVFC /\ Len(est) = MaxCalls /\ PlentyOfCanvases

\* The Capture Scheduler and the Frame Store, in a browser without
\* requestVideoFrameCallback (the estimator answers 30 at once).
Next ==
    \/ CaptureFrame
    \/ \E id \in 1..MaxIds : Remove(id)
    \/ ClearAll
    \/ \E v \in CaptureVideos : HandleFileUpload(v)
    \/ HandleLoadedMetadata
    \/ OpenModalCached
    \/ DetectUnsupported
    \/ CloseModal
    \/ \E s \in 0..MaxDuration, e \in 0..MaxDuration, i \in 1..MaxInterval :
          StartAutoCapture(s, e, i)
    \/ \E o \in {"ok", "noctx", "throw"} : OnSeeked(o)
    \/ OnAnimationFrame
    \/ StopAutoCapture

Spec == InitNoRVFC /\ [][Next]_vars

\* The browser dispatches a 'seeked' event for a seek in progress and runs a
\* requested animation frame callback; nothing obliges the user to act.
SpecCaptureFair ==
    /\ Spec
    /\ WF_vars(\E o \in {"ok", "noctx", "throw"} : OnSeeked(o))
    /\ WF_vars(OnAnimationFrame)

\* The Frame Rate Estimator with the transport controls around it.
NextFps ==
    \/ \E v \in Videos : HandleFileUpload(v)
    \/ HandleLoadedMetadata
    \/ \E t \in 0..MaxDuration : HandleSeekChange(t)
    \/ TogglePlay
    \/ ChangeSpeed
    \/ OpenModalCached
    \/ CloseModal
    \/ \E a \in BOOLEAN : DetectVideoFPS(a)
    \/ \E c \in 1..OverlapCalls : PlayResolved(c)
    \/ \E c \in 1..OverlapCalls : PlayRejected(c)
    \/ \E c \in 1..OverlapCalls : OnVideoFrame(c)
    \/ \E c \in 1..OverlapCalls : OnTimeout(c)

SpecFps == InitRVFC /\ [][NextFps]_vars

\* A timer that is armed fires, and a rejected promise runs its catch handler.
SpecFpsFair ==
    /\ SpecFps
    /\ \A c \in 1..MaxCalls : WF_vars(OnTimeout(c)) /\ WF_vars(PlayRejected(c))

\* Overlapping estimator calls: a call that returned through the catch handler
\* leaves its timeout armed, and the next call can start before it fires.
InitOverlap == Init /\ hasRVFC /\ Len(est) = OverlapCalls /\ PlentyOfCanvases

NextOverlap ==
    \/ \E v \in Videos : HandleFileUpload(v)
    \/ CloseModal
    \/ \E a \in BOOLEAN : DetectVideoFPS(a)
    \/ \E c \in 1..OverlapCalls : PlayResolved(c)
    \/ \E c \in 1..OverlapCalls : PlayRejected(c)
    \/ \E c \in 1..OverlapCalls : OnVideoFrame(c)
    \/ \E c \in 1..OverlapCalls : OnTimeout(c)

SpecOverlap == InitOverlap /\ [][NextOverlap]_vars

\* The Frame Rate Estimator and the Capture Scheduler side by side.
NextModes ==
    \/ \E v \in CaptureVideos : HandleFileUpload(v)
    \/ HandleLoadedMetadata
    \/ OpenModalCached
    \/ CloseModal
    \/ \E a \in BOOLEAN : DetectVideoFPS(a)
    \/ \E c \in 1..OverlapCalls : PlayResolved(c)
    \/ \E c \in 1..OverlapCalls : PlayRejected(c)
    \/ \E c \in 1..OverlapCalls : OnVideoFrame(c)
    \/ \E c \in 1..OverlapCalls : OnTimeout(c)
    \/ \E s \in 0..MaxDuration, e \in 0..MaxDuration, i \in 1..MaxInterval :
          StartAutoCapture(s, e, i)
    \/ \E o \in {"ok", "noctx", "throw"} : OnSeeked(o)
    \/ OnAnimationFrame

SpecModes == InitRVFC /\ [][NextModes]_vars

\* The Exporter.  The Frame Store it starts from is one the capture actions
\* leave behind: up to MaxIds frames at the positions ExportTimestamps, each
\* captured before or after the metadata of the video had loaded, or a long
\* store of frames captured one second apart, newest first.
ExportTimestamps == {1, 3, 5}
ExportDataUrls   == {EmptyDataUrl, ToDataURL(1, ManualQuality)}

SmallStores ==
    UNION {{[k \in 1..n |-> [id |-> k, video |-> 1, timestamp |-> ts[k], originalDataUrl |-> us[k],
                              width |-> IF us[k] = EmptyDataUrl THEN 0 ELSE VideoWidth(1),
                              height |-> IF us[k] = EmptyDataUrl THEN 0 ELSE VideoHeight(1)]] :
               ts \in [1..n -> ExportTimestamps], us \in [1..n -> ExportDataUrls]} :
           n \in 1..MaxIds}

LongStores ==
    {[k \in 1..n |-> [id |-> k, video |-> 1, timestamp |-> n - k,
                      originalDataUrl |-> ToDataURL(1, ManualQuality),
                      width |-> VideoWidth(1), height |-> VideoHeight(1)]] :
        n \in {MaxExportFrames - 1, MaxExportFrames}}

InitExport ==
    /\ InitRest
    /\ ~hasRVFC /\ Len(est) = MaxCalls
    /\ videoSrc = 1
    /\ duration = VideoDuration(1)
    /\ frames \in SmallStores \cup LongStores
    /\ nextId = Len(frames) + 1

NextExport ==
    \/ \E order \in {"asc", "desc"} : ChangeSettings("sortOrder", order)
    \/ HandleDownloadAll
    \/ \E index \in InOrder : OnImageLoad(index)
    \/ \E index \in InOrder : OnImageError(index)
    \/ \E ok \in BOOLEAN : GenerateAsync(ok)

SpecExport == InitExport /\ [][NextExport]_vars

\* Events that have been queued are dispatched, and settled promises run
\* their reactions.
SpecExportFair ==
    /\ SpecExport
    /\ WF_vars(\E index \in InOrder : OnImageLoad(index))
    /\ WF_vars(\E index \in InOrder : OnImageError(index))
    /\ WF_vars(\E ok \in BOOLEAN : GenerateAsync(ok))

\* The Exporter with the images of an export firing in any order.
InitOrders == InitExport /\ frames \in SmallStores

NextOrders ==
    \/ HandleDownloadAll
    \/ \E index \in 0..(MaxIds - 1) : OnImageLoad(index)
    \/ \E index \in 0..(MaxIds - 1) : OnImageError(index)
    \/ \E ok \in BOOLEAN : GenerateAsync(ok)

SpecOrders == InitOrders /\ [][NextOrders]_vars

\* The Exporter at the positions of the scale slider.  The Frame Store holds
\* one frame of the loaded video, captured before or after its metadata had
\* loaded.
ScaleInputs == {10, 35, 58, 70, ScaleSteps}

ScaleStores ==
    {<<[id |-> 1, video |-> v, timestamp |-> 1,
        originalDataUrl |-> IF loaded THEN ToDataURL(Raster(v, 1), ManualQuality) ELSE EmptyDataUrl,
        width |-> IF loaded THEN VideoWidth(v) ELSE 0,
        height |-> IF loaded THEN VideoHeight(v) ELSE 0]>> :
        v \in Videos, loaded \in BOOLEAN}

InitScale ==
    /\ InitRest
    /\ ~hasRVFC /\ Len(est) = MaxCalls /\ PlentyOfCanvases
    /\ videoSrc \in Videos
    /\ duration = VideoDuration(videoSrc)
    /\ frames \in {fs \in ScaleStores : fs[1].video = videoSrc}
    /\ nextId = Len(frames) + 1

NextScale ==
    \/ \E percent \in ScaleInputs : ChangeSettings("scale", percent)
    \/ HandleDownloadAll
    \/ \E index \in InOrder : OnImageLoad(index)
    \/ \E index \in InOrder : OnImageError(index)
    \/ \E ok \in BOOLEAN : GenerateAsync(ok)

SpecScale == InitScale /\ [][NextScale]_vars

\* ------------------------------------------------------------- sample points in doubles
\* The loop of startAutoCapture for times that are not whole seconds.  The
\* dialog's inputs are tenths of a second, parsed into doubles; the loop adds
\* and compares doubles.  This specification follows the sample points (the
\* times passed to seekTo) and the exit of the run; the pictures drawn at the
\* sample points and the progress, which do not feed back into them, are those
\* of Spec.  The video is video 1.
FloatTenths == TenthsPerSecond * VideoDuration(1)

\* Video 1 is loaded, its metadata has arrived and its frame rate is known.
InitFloat ==
    /\ videoSrc = 1
    /\ duration = ParseTenths(FloatTenths)
    /\ frames = <<>>
    /\ isAutoCaptureModalOpen = FALSE
    /\ isAutoCapturing = FALSE
    /\ isAnalyzing = FALSE
    /\ detectedFps = FallbackFps
    /\ autoCaptureProgress = <<0, 1>>
    /\ autoCaptureCount = 0
    /\ playbackSpeed = NormalSpeed
    /\ stop = FALSE
    /\ video = [currentTime |-> BigZero, paused |-> TRUE, muted |-> FALSE,
                seeking |-> FALSE, playbackRate |-> NormalSpeed]
    /\ pc = "idle"
    /\ start = BigZero /\ end = BigZero /\ interval = ParseTenths(TenthsPerSecond)
    /\ newFrames = <<>>
    /\ currentTimeLoop = BigZero
    /\ lastDataUrl = <<>>
    /\ nextId = 1
    /\ hasRVFC = FALSE
    /\ est = [i \in 1..MaxCalls |-> Blank]
    /\ fpsReturned = FallbackFps
    /\ fpsSource = 1
    /\ seeks = <<>>
    /\ rasters = <<>>
    /\ stoppedInFlight = FALSE
    /\ lastExit = "none"
    /\ runResult = "none"
    /\ settings = DefaultSettings
    /\ isProcessing = FALSE
    /\ canvasLimit = MaxExportFrames + 1
    /\ zipRun = NoZipRun
    /\ archive = <<>>
    /\ alerted = FALSE
    /\ dialog = ClosedDialog

\* The function has returned: its parameters (but start, kept for reference)
\* and locals are gone.
FloatReturned(reason) ==
    /\ pc' = "idle"
    /\ end' = BigZero /\ interval' = ParseTenths(TenthsPerSecond)
    /\ currentTimeLoop' = BigZero
    /\ seeks' = <<>>
    /\ stoppedInFlight' = FALSE
    /\ lastExit' = reason
    /\ runResult' = "fulfilled"

\* while (currentTimeLoop <= end) { if (autoCaptureRef.current.stop) break; ...
FloatLoopContinues(t, e, stopped) == DLeq(t, e) /\ ~stopped

\* The user has typed ks, ke and ki tenths into the start, end and interval
\* inputs (start <= end <= duration) and presses Start, enabled when
\* estimatedScans > 0: startAutoCapture up to its first await.
FloatStartAutoCapture(ks, ke, ki) ==
    /\ isAutoCaptureModalOpen /\ ~isAutoCapturing
    /\ ks <= ke
    /\ LET s == ParseTenths(ks)
           e == ParseTenths(ke)
           i == ParseTenths(ki)
       IN /\ DLeq(e, duration)
          /\ FloatEstimatedScans(s, e, i) > 0
          /\ start' = s /\ end' = e /\ interval' = i
          /\ currentTimeLoop' = s
          /\ video' = [video EXCEPT !.paused = TRUE, !.currentTime = s, !.seeking = TRUE]
          /\ seeks' = <<s>>
    /\ isAutoCapturing' = TRUE
    /\ autoCaptureProgress' = <<0, 1>>
    /\ autoCaptureCount' = 0
    /\ stop' = FALSE
    /\ pc' = "seeking"
    /\ stoppedInFlight' = FALSE
    /\ lastExit' = "none"
    /\ runResult' = "pending"
    /\ UNCHANGED <<playbackSpeed, videoSrc, duration, frames, isAnalyzing, detectedFps,
                   isAutoCaptureModalOpen, newFrames, lastDataUrl, nextId, rasters, estVars>>
    /\ UNCHANGED <<exportVars, dialog>>

\* The 'seeked' event resolves seekTo; the iteration ends with
\* currentTimeLoop += interval and waits for the animation frame.
FloatOnSeeked ==
    /\ pc = "seeking"
    /\ video.seeking
    /\ video' = [video EXCEPT !.seeking = FALSE]
    /\ currentTimeLoop' = DAdd(currentTimeLoop, interval)
    /\ pc' = "yield"
    /\ UNCHANGED <<appVars, stop, start, end, interval, newFrames, lastDataUrl, nextId,
                   histVars, estVars>>
    /\ UNCHANGED <<exportVars, dialog>>

\* The animation frame resumes the loop at its head; when the loop is left,
\* finally closes the dialog and puts the position back to start.
FloatOnAnimationFrame ==
    /\ pc = "yield"
    /\ IF FloatLoopContinues(currentTimeLoop, end, stop)
       THEN /\ video' = [video EXCEPT !.currentTime = currentTimeLoop, !.seeking = TRUE]
            /\ seeks' = Append(seeks, currentTimeLoop)
            /\ pc' = "seeking"
            /\ stoppedInFlight' = FALSE
            /\ UNCHANGED <<isAutoCapturing, isAutoCaptureModalOpen, autoCaptureProgress,
                           lastExit, runResult>>
            /\ UNCHANGED <<end, interval, currentTimeLoop>>
       ELSE /\ autoCaptureProgress' = <<100, 1>>
            /\ isAutoCapturing' = FALSE
            /\ isAutoCaptureModalOpen' = FALSE
            /\ video' = [video EXCEPT !.currentTime = start]
            /\ FloatReturned(IF DLeq(currentTimeLoop, end) THEN "cancelled" ELSE "normal")
    /\ UNCHANGED <<playbackSpeed, videoSrc, duration, frames, isAnalyzing, detectedFps,
                   autoCaptureCount, stop, start, newFrames, lastDataUrl, nextId, rasters,
                   estVars>>
    /\ UNCHANGED <<exportVars, dialog>>

NextFloat ==
    \/ OpenModalCached
    \/ CloseModal
    \/ \E ks \in 0..FloatTenths, ke \in 0..FloatTenths, ki \in 1..FloatTenths :
          FloatStartAutoCapture(ks, ke, ki)
    \/ FloatOnSeeked
    \/ FloatOnAnimationFrame
    \/ StopAutoCapture

SpecFloat == InitFloat /\ [][NextFloat]_vars

\* ------------------------------------------------------------- finish(deltas)
\* The most deltas 20 samples give.
MaxDeltas == MaxSampleFrames - 1

\* The time from one frame of video v to the next.
FrameDelta(v) == MediaTimeOf(v, 1) - MediaTimeOf(v, 0)

\* n deltas of b, and n deltas of b but for the p-th, which is o.
Uniform(n, b) == [k \in 1..n |-> b]
WithOutlier(n, b, p, o) == [k \in 1..n |-> IF k = p THEN o ELSE b]

\* Deltas a measurement has collected before its last sample: of a video of
\* 30 frames per second, of one of 24 frames per second that stalled once for
\* 2.5 s, and of a slide show; Last(d) stands for the delta to come.
DeltaLists ==
    {Uniform(n, FrameDelta(1)) : n \in 1..MaxDeltas - 1}
        \cup {Uniform(n, FrameDelta(3)) : n \in 1..MaxDeltas - 1}
        \cup UNION {{WithOutlier(n, FrameDelta(2), p, FrameDelta(3)) : p \in 1..n - 1} :
                        n \in 2..MaxDeltas - 1}

\* A measurement of video 1 is under way: play() has resolved, frames are
\* being delivered, the deltas d have been collected and the frame that is
\* due closes a delta like the last one of d.
InitMedian ==
    /\ \E d \in DeltaLists, empty \in BOOLEAN :
          est = <<[Blank EXCEPT
                     !.source = 1, !.timer = TRUE, !.rvfc = TRUE,
                     !.frameCount = IF empty THEN 0 ELSE Len(d) + 1,
                     !.diffs = IF empty THEN <<>> ELSE d,
                     !.lastMediaTime = IF empty THEN 0
                                       ELSE MediaTimeOf(1, Len(d) + 1) - d[Len(d)]]>>
    /\ video = [currentTime |-> 0, paused |-> FALSE, muted |-> TRUE, seeking |-> FALSE,
                playbackRate |-> NormalSpeed]
    /\ isAnalyzing = TRUE
    /\ hasRVFC = TRUE
    /\ videoSrc = 1
    /\ duration = VideoDuration(1)
    /\ frames = <<>>
    /\ nextId = 1
    /\ isAutoCaptureModalOpen = FALSE
    /\ isAutoCapturing = FALSE
    /\ detectedFps = 0
    /\ autoCaptureProgress = <<0, 1>>
    /\ autoCaptureCount = 0
    /\ playbackSpeed = NormalSpeed
    /\ stop = FALSE
    /\ pc = "idle"
    /\ start = 0 /\ end = 0 /\ interval = 1
    /\ newFrames = <<>>
    /\ currentTimeLoop = 0
    /\ lastDataUrl = <<>>
    /\ fpsReturned = -1
    /\ fpsSource = 0
    /\ seeks = <<>>
    /\ rasters = <<>>
    /\ stoppedInFlight = FALSE
    /\ lastExit = "none"
    /\ runResult = "none"
    /\ settings = DefaultSettings
    /\ isProcessing = FALSE
    /\ PlentyOfCanvases
    /\ zipRun = NoZipRun
    /\ archive = <<>>
    /\ alerted = FALSE
    /\ dialog = ClosedDialog

\* The frame callback and the timeout of the measurement.
NextMedian ==
    \/ \E c \in 1..MaxCalls : OnVideoFrame(c)
    \/ \E c \in 1..MaxCalls : OnTimeout(c)

SpecMedian == InitMedian /\ [][NextMedian]_vars

\* ------------------------------------------------------------- capture dialog
MinExp     == -1074     \* 2^MinExp is the least positive double
AbsorbBits == 60        \* a term this many binary places below another is rounded away
ExactBits  == 16        \* shifts up to this size are computed in whole numbers

\* Exponents of the numbers typed into the dialog: 2^TinyExp and 2^HugeExp.
TinyExp == -1000
HugeExp == 80
BigFpsExp == 20

RECURSIVE GCD(_, _)
GCD(a, b) == IF b = 0 THEN a ELSE GCD(b, a % b)

RECURSIVE Normal(_, _, _, _)
\* The canonical form of m * 2^e / inv.
Normal(neg, m, e, inv) ==
    IF m = 0 THEN [neg |-> neg, m |-> 0, e |-> 0, inv |-> 1]
    ELSE IF m % 2 = 0 THEN Normal(neg, m \div 2, e + 1, inv)
    ELSE IF inv % 2 = 0 THEN Normal(neg, m, e - 1, inv \div 2)
    ELSE LET g == GCD(m, inv)
         IN [neg |-> neg, m |-> m \div g, e |-> e, inv |-> inv \div g]

\* The whole number n, and 2^k.
Whole(n) == Normal(n < 0, IF n < 0 THEN -n ELSE n, 0, 1)
PowerOfTwo(k) == [neg |-> FALSE, m |-> 1, e |-> k, inv |-> 1]

Negated(a) == [a EXCEPT !.neg = ~a.neg]
Sign(a) == IF a.m = 0 THEN 0 ELSE IF a.neg THEN -1 ELSE 1

\* 2^Top(m, e) is the least power of two above m * 2^e.
Top(m, e) == BitLen(m) + e

\* |a| < |b|
MagLess(a, b) ==
    IF a.m = 0 THEN b.m # 0
    ELSE IF b.m = 0 THEN FALSE
    ELSE LET x == a.m * b.inv
             y == b.m * a.inv
             lo == Min(a.e, b.e)
         IN IF Top(x, a.e) # Top(y, b.e) THEN Top(x, a.e) < Top(y, b.e)
            ELSE x * 2^(a.e - lo) < y * 2^(b.e - lo)

\* a < b
Less(a, b) ==
    IF Sign(a) # Sign(b) THEN Sign(a) < Sign(b)
    ELSE IF Sign(a) = 1 THEN MagLess(a, b)
    ELSE IF Sign(a) = -1 THEN MagLess(b, a)
    ELSE FALSE

\* Math.max(a, b), Math.min(a, b)
MathMax(a, b) == IF Less(a, b) THEN b ELSE a
MathMin(a, b) == IF Less(b, a) THEN b ELSE a

\* a - b of two doubles that are whole multiples of a power of two.  The
\* result is exact where both operands are within ExactBits places of each
\* other, and the larger operand where the smaller is rounded away.
Sub(a, b) ==
    LET y == Negated(b)
        lo == Min(a.e, y.e)
    IN CASE a.m = 0 /\ y.m = 0 -> [Zero EXCEPT !.neg = a.neg /\ y.neg]
         [] a.m # 0 /\ y.m = 0 -> a
         [] a.m = 0 /\ y.m # 0 -> y
         [] a.m # 0 /\ y.m # 0 /\ Top(a.m, a.e) - Top(y.m, y.e) > AbsorbBits -> a
         [] a.m # 0 /\ y.m # 0 /\ Top(y.m, y.e) - Top(a.m, a.e) > AbsorbBits -> y
         [] /\ a.m # 0 /\ y.m # 0
            /\ a.inv = 1 /\ y.inv = 1
            /\ a.e - lo <= ExactBits /\ y.e - lo <= ExactBits ->
               LET v == Sign(a) * a.m * 2^(a.e - lo) + Sign(y) * y.m * 2^(y.e - lo)
               IN IF v = 0 THEN Zero ELSE Normal(v < 0, IF v < 0 THEN -v ELSE v, lo, 1)

\* Math.floor(x / y) for y > 0 and x a whole multiple of a power of two.
\* |x / y| = n / d * 2^s.  A quotient of at most half the least positive
\* double is rounded to a zero that keeps its sign, and Math.floor keeps -0.
FloorOfRatio(x, y) ==
    LET n == x.m * y.inv
        d == y.m
        s == x.e - y.e
        num == n * 2^Max(s, 0)
        den == d * 2^Max(-s, 0)
    IN CASE x.m = 0 -> x
         [] x.m # 0 /\ Top(n, s) <= MinExp - 1 -> [Zero EXCEPT !.neg = x.neg]
         [] /\ x.m # 0
            /\ Top(n, s) - BitLen(d) >= MinExp
            /\ Top(n, s) <= BitLen(d) - 1 -> IF x.neg THEN Whole(-1) ELSE Zero
         [] /\ x.m # 0
            /\ s <= ExactBits /\ -s <= ExactBits ->
               IF ~x.neg THEN Whole(num \div den)
               ELSE IF num % den = 0 THEN Whole(-(num \div den))
               ELSE Whole(-(num \div den) - 1)
         [] x.m # 0 /\ s > ExactBits /\ d = 1 -> Normal(x.neg, n, s, 1)

\* z + 1 for a whole z
PlusOne(z) ==
    CASE z.m = 0 -> Whole(1)
      [] z.m # 0 /\ z.e >= 0 /\ Top(z.m, z.e) <= ExactBits -> Whole(Sign(z) * z.m * 2^z.e + 1)
      [] z.m # 0 /\ Top(z.m, z.e) > AbsorbBits -> z

\* const estimatedScans = interval > 0 ? Math.floor((endTime - startTime) / interval) + 1 : 0
DialogEstimatedScans(s, e, i) ==
    IF Less(Zero, i)
    THEN PlusOne(FloorOfRatio(Sub(e, s), i))
    ELSE Zero

\* 1 / detectedFps for a whole detectedFps > 0
Reciprocal(n) == Normal(FALSE, 1, 0, n)

\* Number((1 / val).toFixed(4)) for val >= 0.1: the ten-thousandths nearest to
\* 1 / val, the larger of two that are equally near.
InverseFixed4(val) ==
    IF Top(val.m, val.e) > ExactBits THEN Zero
    ELSE LET num == 10000 * val.inv * 2^Max(-val.e, 0)
             den == val.m * 2^Max(val.e, 0)
         IN Normal(FALSE, (2 * num + den) \div (2 * den), 0, 10000)

\* const targetFps = detectedFps || 30, as a number of the dialog
TargetFps(fps) == IF fps # 0 THEN Whole(fps) ELSE Whole(FallbackFps)

\* Values of e.target.value typed into the time, interval and fps inputs.
TimeInputs     == {Whole(-1), Zero, PowerOfTwo(TinyExp), Whole(1), Whole(2)}
IntervalInputs == {Zero, Whole(1), PowerOfTwo(HugeExp)}
FpsInputs      == {Zero, Whole(1), Whole(2), Whole(24), PowerOfTwo(BigFpsExp)}

\* The dialog's form is on screen.
FormShown == StartShown(isAutoCaptureModalOpen, isAutoCapturing)

DialogUnchanged ==
    UNCHANGED <<appVars, stop, video, runVars, nextId, histVars, estVars, exportVars>>

\* handleOpenBatchModal, from the return of detectVideoFPS with fps where no
\* estimate was at hand, and the useEffect of the dialog that follows the
\* render in which isOpen became true.
OpenDialog(fps) ==
    /\ videoSrc # 0
    /\ ~isAutoCaptureModalOpen /\ ~isAutoCapturing /\ ~isAnalyzing
    /\ detectedFps # 0 => fps = detectedFps
    /\ detectedFps' = fps
    /\ isAutoCaptureModalOpen' = TRUE
    /\ dialog' = [startTime |-> Zero, endTime |-> duration,
                  interval |-> Reciprocal(IF fps # 0 THEN fps ELSE FallbackFps)]
    /\ UNCHANGED <<playbackSpeed, videoSrc, duration, frames, isAutoCapturing, isAnalyzing,
                   autoCaptureProgress, autoCaptureCount, stop, video, runVars,
                   nextId, histVars, estVars, exportVars>>

\* onChange of the start input: setStartTime(Math.max(0, Number(e.target.value)))
SetStartTime(v) ==
    /\ FormShown
    /\ dialog' = [dialog EXCEPT !.startTime = MathMax(Zero, v)]
    /\ DialogUnchanged

\* onChange of the end input: setEndTime(Math.min(duration, Number(e.target.value)))
SetEndTime(v) ==
    /\ FormShown
    /\ dialog' = [dialog EXCEPT !.endTime = MathMin(duration, v)]
    /\ DialogUnchanged

\* onChange of the interval input: handleIntervalChange(Math.max(0.01, Number(e.target.value)))
HandleIntervalChange(v) ==
    /\ FormShown
    /\ dialog' = [dialog EXCEPT !.interval = MathMax(Reciprocal(100), v)]
    /\ DialogUnchanged

\* onChange of the fps input: handleFpsChange(Math.max(0.1, Number(e.target.value)))
HandleFpsChange(v) ==
    /\ FormShown
    /\ dialog' = [dialog EXCEPT !.interval = InverseFixed4(MathMax(Reciprocal(10), v))]
    /\ DialogUnchanged

\* setPresetNativeFrames
SetPresetNativeFrames ==
    /\ FormShown
    /\ dialog' = [startTime |-> Zero, endTime |-> duration,
                  interval |-> InverseFixed4(TargetFps(detectedFps))]
    /\ DialogUnchanged

\* onClick of the "every second" preset: handleIntervalChange(1); setStartTime(0); setEndTime(duration)
SetPresetEverySecond ==
    /\ FormShown
    /\ dialog' = [startTime |-> Zero, endTime |-> duration, interval |-> Whole(1)]
    /\ DialogUnchanged

\* onClick of Start (disabled={estimatedScans <= 0}): onStart(startTime, endTime,
\* interval), that is startAutoCapture up to its first await.
DialogStart ==
    /\ FormShown
    /\ Less(Zero, DialogEstimatedScans(dialog.startTime, dialog.endTime, dialog.interval))
    /\ start' = dialog.startTime /\ end' = dialog.endTime /\ interval' = dialog.interval
    /\ isAutoCapturing' = TRUE
    /\ autoCaptureProgress' = <<0, 1>>
    /\ autoCaptureCount' = 0
    /\ stop' = FALSE
    /\ video' = [video EXCEPT !.paused = TRUE, !.seeking = TRUE,
                              !.currentTime = MathMax(Zero, MathMin(duration, dialog.startTime))]
    /\ pc' = "seeking"
    /\ lastExit' = "none"
    /\ runResult' = "pending"
    /\ UNCHANGED <<playbackSpeed, videoSrc, duration, frames, isAnalyzing, detectedFps,
                   isAutoCaptureModalOpen, newFrames, currentTimeLoop, lastDataUrl, nextId,
                   seeks, rasters, stoppedInFlight, estVars, exportVars, dialog>>

\* The rest of the run, which SpecFloat follows step by step, and its finally
\* block: the dialog is closed and keeps its state; the parameters of the
\* function are gone.
DialogRunEnds ==
    /\ pc = "seeking"
    /\ isAutoCapturing' = FALSE
    /\ isAutoCaptureModalOpen' = FALSE
    /\ autoCaptureProgress' = <<100, 1>>
    /\ video' = [video EXCEPT !.seeking = FALSE,
                              !.currentTime = MathMax(Zero, MathMin(duration, start))]
    /\ pc' = "idle"
    /\ lastExit' = "normal"
    /\ runResult' = "fulfilled"
    /\ start' = 0 /\ end' = 0 /\ interval' = 1
    /\ UNCHANGED <<playbackSpeed, videoSrc, duration, frames, isAnalyzing, detectedFps,
                   autoCaptureCount, stop, newFrames, currentTimeLoop,
                   lastDataUrl, nextId, seeks, rasters, stoppedInFlight, estVars, exportVars,
                   dialog>>

\* Frame rates the estimator returns (0: for a slide show).
DialogFps == {0, 2, 24, FallbackFps}

\* A video is loaded, its metadata has or has not arrived, and the dialog is
\* closed.
InitDialog ==
    /\ InitRest
    /\ ~hasRVFC /\ Len(est) = MaxCalls /\ PlentyOfCanvases
    /\ videoSrc \in Videos
    /\ duration \in {Zero, Whole(VideoDuration(videoSrc))}
    /\ frames = <<>>
    /\ nextId = 1

NextDialog ==
    \/ \E fps \in DialogFps : OpenDialog(fps)
    \/ CloseModal
    \/ \E v \in TimeInputs : SetStartTime(v)
    \/ \E v \in TimeInputs : SetEndTime(v)
    \/ \E v \in IntervalInputs : HandleIntervalChange(v)
    \/ \E v \in FpsInputs : HandleFpsChange(v)
    \/ SetPresetNativeFrames
    \/ SetPresetEverySecond
    \/ DialogStart
    \/ DialogRunEnds

SpecDialog == InitDialog /\ [][NextDialog]_vars

\* ------------------------------------------------------------- properties
Range(s) == {s[k] : k \in 1..Len(s)}

\* A step in which the run leaves through the statements after the loop.
MergeStep == pc = "yield" /\ pc' = "idle"

\* A step in which the run leaves through catch.
ErrorStep == pc = "seeking" /\ pc' = "idle"

C2_PartialBatchMergedOnError ==
    [][ErrorStep =>
        /\ Range(newFrames) \subseteq Range(frames')
        /\ Range(frames) \subseteq Range(frames')]_vars

\* C3: when a step of the loop throws, the promise of the run is rejected, so
\* that the caller can tell the failure from a completion.
C3_ErrorReportedToCaller ==
    [][ErrorStep => runResult' = "rejected"]_vars

\* C4: on every exit of a run the running flag is cleared and the decoder
\* position equals range.start.
C4_CleanupOnEveryExit ==
    [][pc # "idle" /\ pc' = "idle" =>
        ~isAutoCapturing' /\ video'.currentTime = start]_vars

\* C5: stop is read at the loop head only.  An iteration whose seek is awaited
\* runs its capture whatever stop is (it leaves for the animation-frame await, or
\* through catch when the capture throws, and its frame is accepted when its
\* signature is new); at the loop head a set flag ends the run without a
\* further seek, and a clear flag with time left starts the next seek.
C5_StopReadAtLoopTopOnly ==
    [][/\ (pc = "seeking" /\ pc' # "seeking") =>
            (\/ (pc' = "idle" /\ lastExit' = "error")
             \/ (/\ pc' = "yield"
                 /\ Len(newFrames') >= Len(newFrames)
                 /\ ((/\ Len(rasters') > Len(rasters)
                      /\ ToDataURL(rasters'[Len(rasters')], CompareQuality) # lastDataUrl)
                        => (Len(newFrames') = Len(newFrames) + 1))))
       /\ (pc = "yield" /\ pc' # "yield" /\ stop) =>
            (/\ pc' = "idle"
             /\ lastExit' = (IF currentTimeLoop <= end THEN "cancelled" ELSE "normal"))
       /\ (pc = "yield" /\ pc' # "yield" /\ ~stop /\ currentTimeLoop <= end) =>
            (pc' = "seeking" /\ seeks' = Append(seeks, currentTimeLoop))]_vars

\* stop was set during the second seek, and the frame of that iteration was accepted.
C5_Witness ==
    /\ pc = "yield" /\ stop /\ stoppedInFlight
    /\ Len(seeks) = 2 /\ Len(newFrames) = 2

C7_ProgressBelow100UntilDone ==
    LET p == autoCaptureProgress
        t == currentTimeLoop - interval
    IN /\ pc # "idle" => (p[2] > 0 /\ 0 <= p[1] /\ p[1] <= 99 * p[2])
       /\ pc = "yield" =>
            IF end = start \/ 100 * (t - start) >= 99 * (end - start)
            THEN p[1] = 99 * p[2]
            ELSE p[1] * (end - start) = 100 * (t - start) * p[2]
       /\ (pc = "idle" /\ lastExit = "normal") => p[1] = 100 * p[2]

\* Half way through a run the progress is 50.
C7_Witness ==
    /\ pc = "yield" /\ end - start = 2 /\ currentTimeLoop = start + 2
    /\ autoCaptureProgress[1] = 50 * autoCaptureProgress[2]

\* The number of tenths the double d was parsed from.
TenthsOf(d) == CHOOSE k \in 0..FloatTenths : ParseTenths(k) = d

\* C8: a run that leaves its loop neither cancelled nor hit by an error has
\* made exactly floor((end - start) / interval) + 1 iterations, and the dialog's
\* estimate for its range is that number.
C8_ScansAsEstimated ==
    [][(pc = "yield" /\ pc' = "idle" /\ lastExit' = "normal") =>
        /\ Len(seeks) = ((TenthsOf(end) - TenthsOf(start)) \div TenthsOf(interval)) + 1
        /\ Len(seeks) = FloatEstimatedScans(start, end, interval)]_vars

\* C9: no two frames accepted one after the other in a run have the same
\* signature, and a run that drew the same raster at every step has accepted
\* exactly one frame.
C9_NoAdjacentDuplicates ==
    /\ \A k \in 1..(Len(newFrames) - 1) :
          newFrames[k].originalDataUrl # newFrames[k + 1].originalDataUrl
    /\ (rasters # <<>> /\ \A k \in 1..Len(rasters) : rasters[k] = rasters[1])
          => Len(newFrames) = 1

\* Two steps on a still picture, one frame.
C9_Witness ==
    /\ pc = "yield" /\ currentTimeLoop > end
    /\ Len(rasters) = 2 /\ rasters[1] = rasters[2]
    /\ Len(newFrames) = 1

\* C10: every value returned by the estimator is an integer >= 1.
C10_FpsPositive == fpsReturned = -1 \/ fpsReturned >= 1

\* The step at which call c of detectVideoFPS returns: its promise settles.
ReturnStep(c) ==
    /\ est[c] # Blank
    /\ ~est[c].resolved
    /\ est'[c].resolved \/ est'[c] = Blank

\* C11: when a detectVideoFPS call that started a measurement returns, the
\* video is back at the position, mute state and play/pause state the call
\* found, on every path.
C11_RestoredAtReturn ==
    [][\A c \in DOMAIN est :
          ReturnStep(c) => /\ video'.currentTime = est[c].originalTime
                           /\ video'.muted = est[c].originalMuted
                           /\ video'.paused = ~est[c].wasPlaying]_vars

\* Call c of detectVideoFPS has not returned yet.
Pending(c) == est[c] # Blank /\ ~est[c].resolved

\* The timeout of a pending call c fires; the step is not the delivery of the
\* 20th sample, which also ends the call.
DeadlineStep(c) ==
    /\ Pending(c)
    /\ est[c].timer /\ ~est'[c].timer
    /\ est[c].frameCount + 1 < MaxSampleFrames

\* C12: every detectVideoFPS call returns and isAnalyzing is cleared again,
\* also when no frame callback ever runs; the timeout of a call with fewer
\* than 20 samples finishes it with the deltas collected so far.
C12_EveryCallReturns ==
    /\ isAnalyzing ~> ~isAnalyzing
    /\ \A c \in 1..MaxCalls : Pending(c) ~> ~Pending(c)
    /\ [][\A c \in 1..MaxCalls :
             DeadlineStep(c) => /\ ReturnStep(c)
                                /\ ~isAnalyzing'
                                /\ fpsReturned' = FpsOf(SortDeltas(est[c].diffs))]_vars

\* A call was ended by its timeout before play() had settled: no frame
\* callback ever ran.
C12_Witness ==
    \E c \in 1..MaxCalls :
        /\ est[c].resolved /\ ~est[c].timer /\ est[c].play = "aborted"
        /\ est[c].frameCount = 0
        /\ ~isAnalyzing /\ fpsReturned = FallbackFps

\* C13: fps analysis and a capture run are never in progress together.
C13_ModesExclusive == ~(isAnalyzing /\ isAutoCapturing)

\* C15: no two frames of the Frame Store have the same id.
C15_UniqueIds ==
    \A i, j \in 1..Len(frames) : i # j => frames[i].id # frames[j].id

\* The store is full and holds a manual capture next to frames of a run.
C15_Witness ==
    /\ Len(frames) = MaxIds
    /\ \E i, j \in 1..Len(frames) :
          /\ frames[i].originalDataUrl[1] = ManualQuality
          /\ frames[j].originalDataUrl[1] = CompareQuality

\* C14: the cached fps estimate is absent or was measured on the video that is
\* loaded now.
C14_CacheOfCurrentVideo == detectedFps # 0 => fpsSource = videoSrc

\* Every Image of the export in progress has fired load or error.
AllImagesDone ==
    zipRun.pc = "transforming" /\ zipRun.pending = {}

\* C16: a frame whose decoding or encoding fails gets no archive entry, every
\* other frame is written, and the export can still complete: once all images
\* are done, no processFrame promise is left pending.
C16_BadFrameDoesNotStopExport ==
    AllImagesDone =>
        /\ zipRun.unsettled = {}
        /\ PlentyOfCanvases =>
              {e.blob : e \in zipRun.files} =
                 {frames[k].id : k \in {j \in 1..Len(frames) : Decodes(frames[j])}}

\* C17: an export that has set the processing flag clears it again.
C17_ProcessingFlagCleared == isProcessing ~> ~isProcessing

\* Number of decimal digits of n >= 1.
DigitCount(n) == CHOOSE d \in 1..4 : 10^(d - 1) <= n /\ n < 10^d

RECURSIVE ParseInt(_)
\* The number a digit string stands for.
ParseInt(digits) ==
    IF digits = <<>> THEN 0
    ELSE 10 * ParseInt(SubSeq(digits, 1, Len(digits) - 1)) + digits[Len(digits)]

\* 1-based position of the frame of entry e among the sorted frames.
OrdinalOf(e) ==
    CHOOSE k \in 1..Len(zipRun.sortedFrames) : zipRun.sortedFrames[k].id = e.blob

\* The name of entry e is prefix, '_', the ordinal of its frame in `width`
\* digits, '.', the subtype of the format.
NamedWithWidth(e, width) ==
    /\ e.name.prefix = zipRun.settings.prefix
    /\ e.name.ext = zipRun.settings.format[2]
    /\ ParseInt(e.name.numStr) = OrdinalOf(e)
    /\ Len(e.name.numStr) = width

\* C18: in an export of N frames every file name carries the ordinal padded
\* with zeros to max(2, digitCount(N)) digits.
C18_WidthFromFrameCount ==
    \A e \in zipRun.files :
        NamedWithWidth(e, Max(2, DigitCount(Len(zipRun.sortedFrames))))

\* C18, amended: every file name carries the ordinal padded with zeros to
\* max(2, digitCount(ordinal)) digits.
C18_WidthFromOrdinal ==
    \A e \in zipRun.files : NamedWithWidth(e, Max(2, DigitCount(OrdinalOf(e))))

\* An export of MaxExportFrames frames has named its first and its last frame.
C18_Witness ==
    /\ AllImagesDone
    /\ Len(zipRun.sortedFrames) = MaxExportFrames
    /\ \E e \in zipRun.files : OrdinalOf(e) = 1
    /\ \E e \in zipRun.files : OrdinalOf(e) = MaxExportFrames

\* Frame a comes before frame b in the order asked for.
SortsBefore(a, b, order) ==
    IF order = "asc" THEN a.timestamp < b.timestamp ELSE a.timestamp > b.timestamp

\* 1-based position of the k-th frame of the store once all frames are sorted
\* by timestamp, frames of equal timestamp staying in store order.
SortedPosition(k, order) ==
    1 + Cardinality({j \in 1..Len(frames) :
                        \/ SortsBefore(frames[j], frames[k], order)
                        \/ frames[j].timestamp = frames[k].timestamp /\ j < k})

\* C19: the number in the file name of a frame is the frame's 1-based position
\* among all stored frames sorted by timestamp as sortOrder says, whatever the
\* frame's position in the store.
C19_NumberIsSortedPosition ==
    \A e \in zipRun.files :
        \E k \in 1..Len(frames) :
            /\ frames[k].id = e.blob
            /\ ParseInt(e.name.numStr) = SortedPosition(k, zipRun.settings.sortOrder)

\* Timestamps [1, 5, 3] exported in descending order: the frame at 5 is 01.
C19_Witness ==
    /\ AllImagesDone
    /\ zipRun.settings.sortOrder = "desc"
    /\ [k \in 1..Len(frames) |-> frames[k].timestamp] = <<1, 5, 3>>
    /\ \E e \in zipRun.files : e.blob = frames[2].id /\ e.name.numStr = <<0, 1>>

\* C20: an export in which no frame was transformed delivers no archive.
C20_NoArchiveWithoutFrames == archive # <<>> => archive[1] # {}

\* The store s without its k-th entry.
WithoutEntry(s, k) == SubSeq(s, 1, k - 1) \o SubSeq(s, k + 1, Len(s))

\* A step of the gallery: nothing but the Frame Store changes.
GalleryStep ==
    /\ frames' # frames
    /\ UNCHANGED <<playbackSpeed, videoSrc, duration, isAutoCaptureModalOpen, isAutoCapturing,
                   isAnalyzing, detectedFps, autoCaptureProgress, autoCaptureCount, stop,
                   video, runVars, nextId, histVars, estVars, exportVars>>

\* C22: remove(id) takes out exactly the entry with that id and keeps the
\* others in their order, it changes nothing when no entry has the id, and
\* clear() leaves the store empty: what onRemove yields on the store of every
\* reachable state, and what every step of the gallery does to the store.
C22_RemoveExactlyOne ==
    /\ [](\A id \in 1..MaxIds :
             IF \E k \in 1..Len(frames) : frames[k].id = id
             THEN \E k \in 1..Len(frames) :
                     /\ frames[k].id = id
                     /\ FilterOutId(frames, id) = WithoutEntry(frames, k)
             ELSE FilterOutId(frames, id) = frames)
    /\ [][GalleryStep =>
             \/ frames' = <<>>
             \/ \E k \in 1..Len(frames) : frames' = WithoutEntry(frames, k)]_vars

\* The second of three frames has been removed.
C22_Witness ==
    /\ nextId = MaxIds + 1
    /\ Len(frames) = MaxIds - 1
    /\ \A k \in 1..Len(frames) : frames[k].id # 2

\* C23: a run that was left by cancellation or by an error has not reported
\* progress 100.
C23_HundredOnlyOnCompletion ==
    lastExit \in {"cancelled", "error"} =>
        autoCaptureProgress[1] # 100 * autoCaptureProgress[2]

\* C28: every frame of the Frame Store was captured from the video that is
\* loaded now.
C28_NoFrameOfReplacedVideo ==
    \A k \in 1..Len(frames) : frames[k].video = videoSrc

\* A callback of call c runs after the call has returned: its timeout fires
\* or the catch handler of its play() promise runs.
LateStep(c) ==
    /\ est[c].resolved
    /\ \/ est[c].timer /\ ~est'[c].timer
       \/ est[c].play = "aborted" /\ est'[c].play = "none"

\* C24: a callback of a detectVideoFPS call that has already returned changes
\* neither the video element nor isAnalyzing.
C24_NoEffectAfterReturn ==
    [][\A c \in 1..MaxCalls :
          LateStep(c) => video' = video /\ isAnalyzing' = isAnalyzing]_vars

\* C25: every capture run that was started ends: isAutoCapturing is cleared
\* again and the dialog is closed.
C25_EveryRunEnds ==
    isAutoCapturing ~> (~isAutoCapturing /\ ~isAutoCaptureModalOpen)

\* Iterations of the running loop that are complete: each one added interval
\* to currentTimeLoop.
IterationsDone == (currentTimeLoop - start) \div interval

\* A step that calls startAutoCapture.
StartStep ==
    \E s \in 0..MaxDuration, e \in 0..MaxDuration, i \in 1..MaxInterval :
        StartAutoCapture(s, e, i)

\* C26: one capture run at a time and one sampling seek at a time.  The
\* running flag is set exactly while a run is in progress, a run starts only
\* when none is in progress, every seek issued but the last has been followed
\* by its capture, and a seek is issued only when none is awaited.
C26_OneRunOneSeek ==
    /\ [](isAutoCapturing <=> pc # "idle")
    /\ [](/\ pc = "idle" => seeks = <<>>
          /\ pc = "seeking" => Len(seeks) = IterationsDone + 1
          /\ pc = "yield" => Len(seeks) = IterationsDone)
    /\ [][StartStep => pc = "idle"]_vars
    /\ [][Len(seeks') = Len(seeks) + 1 => pc # "seeking"]_vars

\* A run awaits the seek of its second iteration while the dialog is open.
C26_Witness ==
    /\ pc = "seeking"
    /\ Len(seeks) = 2
    /\ isAutoCapturing /\ isAutoCaptureModalOpen

\* C27: a capture run is started only with 0 <= start <= end <= duration and
\* interval > 0.
C27_StartedRangeValid ==
    isAutoCapturing =>
        /\ ~Less(start, Zero)
        /\ ~Less(end, start)
        /\ ~Less(duration, end)
        /\ Less(Zero, interval)

\* m is the middle one of the deltas d in ascending order, the upper of the
\* two middle ones where their number is even.
IsMedian(m, d) ==
    /\ \E k \in 1..Len(d) : d[k] = m
    /\ Cardinality({k \in 1..Len(d) : d[k] < m}) <= Len(d) \div 2
    /\ Cardinality({k \in 1..Len(d) : d[k] <= m}) >= Len(d) \div 2 + 1

\* r = round(1 / m) for m in microseconds: r - 1/2 <= 1/m < r + 1/2.
IsRoundOfInverse(r, m) ==
    /\ (2 * r - 1) * m <= 2 * MicrosPerSecond
    /\ 2 * MicrosPerSecond < (2 * r + 1) * m

\* r is what the estimator is to return for the deltas d.
Estimates(r, d) ==
    /\ \A k \in 1..Len(d) : d[k] > MinDelta
    /\ IF d = <<>> THEN r = 30
       ELSE \E k \in 1..Len(d) : IsMedian(d[k], d) /\ IsRoundOfInverse(r, d[k])
    /\ d = Uniform(MaxDeltas, FrameDelta(1)) => r = 30
    /\ (/\ Len(d) = MaxDeltas
        /\ Cardinality({k \in 1..Len(d) : d[k] = FrameDelta(2)}) = MaxDeltas - 1) => r = 24

\* The deltas that the step at which call c returns can have passed to
\* finish: those collected, by the timeout, or those and the one that the
\* 20th sample closes, by the frame callback.
PassedDeltas(c) ==
    LET diff == MediaTimeOf(videoSrc, est[c].frameCount) - est[c].lastMediaTime
    IN {est[c].diffs}
         \cup (IF est[c].rvfc /\ est[c].frameCount + 1 = MaxSampleFrames
               THEN {IF diff > MinDelta THEN Append(est[c].diffs, diff) ELSE est[c].diffs}
               ELSE {})

\* C29: the estimator returns round(1/m) for the median m of the deltas passed
\* to finish, 30 for no deltas, 30 for 19 deltas of 1/30, and 24 for 19 deltas
\* of which 18 are 1/24.
C29_MedianOfDeltas ==
    [][\A c \in DOMAIN est :
          ReturnStep(c) => \E d \in PassedDeltas(c) : Estimates(fpsReturned', d)]_vars

\* A measurement of deltas of 1/24 with one outlier has returned 24.
C29_Witness ==
    /\ fpsReturned = 24
    /\ est[1] = Blank
    /\ ~isAnalyzing

\* C30: every transformed image is max(1, floor(width * scale)) wide and
\* max(1, floor(height * scale)) high for the width and height of its frame
\* and the scale of the export, each between 1 and the frame's own, and at
\* scale 1 it has the frame's own width and height.
C30_TargetDimensions ==
    \A e \in zipRun.files :
        LET frame   == zipRun.sortedFrames[OrdinalOf(e)]
            percent == zipRun.settings.scale
        IN /\ e.width = Max(1, (frame.width * percent) \div ScaleSteps)
           /\ e.height = Max(1, (frame.height * percent) \div ScaleSteps)
           /\ 1 <= e.width /\ e.width <= frame.width
           /\ 1 <= e.height /\ e.height <= frame.height
           /\ percent = ScaleSteps => e.width = frame.width /\ e.height = frame.height

\* C21: the archive is generated only when the transform of every frame has
\* resolved, and whatever the order in which the transforms completed, the
\* archive delivered holds one entry for each frame whose transform yielded
\* an image and no other, under the file name of that frame's position among
\* the sorted frames.
C21_JoinThenOneEntryPerFrame ==
    [][zipRun.pc = "transforming" /\ zipRun'.pc = "idle" =>
          /\ zipRun.pending = {} /\ zipRun.unsettled = {}
          /\ archive' # <<>> =>
                /\ Cardinality(archive'[1]) = Cardinality(zipRun.blobs)
                /\ \A k \in zipRun.blobs :
                      \E e \in archive'[1] :
                         /\ e.blob = zipRun.sortedFrames[k + 1].id
                         /\ e.name = GenerateFilename(zipRun.sortedFrames[k + 1].timestamp,
                                                      zipRun.settings, k)]_vars

\* An archive of one entry, the second of two frames that both decode: with
\* one canvas to be had, the second frame's transform completed first.
C21_Witness ==
    /\ archive # <<>>
    /\ Len(frames) = 2
    /\ \A k \in 1..2 : Decodes(frames[k])
    /\ Cardinality(archive[1]) = 1
    /\ \A e \in archive[1] : e.name.numStr = <<0, 2>>
====
